---- MODULE Spec2Model ----
(***************************************************************************)
(* s4cmb: the systematics injection engine (s4cmb/systematics.py) and the  *)
(* scan trajectory synthesizer (s4cmb/scanning_strategy.py) as state       *)
(* machines.                                                               *)
(*                                                                         *)
(* Numbers.  The program computes in IEEE doubles; the model computes in   *)
(* integers, and draws its inputs so that every division the code makes    *)
(* is exact (leakage amplitudes are multiples of AmpScale, percentages are *)
(* multiples of 100).  On such inputs the integer arithmetic below is the  *)
(* arithmetic of the code; rounding is not modelled.                       *)
(*                                                                         *)
(* Arrays are functions over 0 .. n-1, as numpy indexes them.  A           *)
(* timestream is one sample: every numpy statement of the crosstalk        *)
(* kernels acts sample by sample on whole rows.                            *)
(***************************************************************************)
EXTENDS Integers, Sequences, FiniteSets, TLC

VARIABLES
    \* ---- crosstalk: the caller's arrays and the last call ----
    bolo_data,      \* detector timestreams, the caller's array
    squid_ids,      \* SQUID id of each detector
    bolo_ids,       \* channel of each detector inside its SQUID
    new_array,      \* None, or the caller's output buffer
    in_data,        \* bolo_data as it was at call entry
    call,           \* the arguments of the call made, NoCall before it
    kernel,         \* which kernel of the call ran: "none", "python", "fortran"
    xt_pc,          \* "idle", "kernel" (inside the python loops), "returned",
                    \* "raised" (IndexError)
    \* ---- the python kernel of inject_crosstalk_inside_SQUID, step by step,
    \*      one worker per SQUID group on the shared buffer ----
    w_tsout,        \* tsout, the working buffer of the call
    w_pos,          \* per SQUID: how many (ch, i), (ch2, i2) iterations are done
    w_acc,          \* per SQUID: <<v>> between the read and the write of
                    \* tsout[i] += ..., <<>> otherwise
    w_overlap       \* two workers have been between read and write at once

xtalkVars == <<bolo_data, squid_ids, bolo_ids, new_array, in_data, call,
               kernel, xt_pc>>
workerVars == <<w_tsout, w_pos, w_acc, w_overlap>>

VARIABLES
    \* ---- differential pointing: the caller's arrays and the last call ----
    bolometer_xpos, \* beam centroids along x, the caller's array
    bolometer_ypos, \* beam centroids along y, the caller's array
    bm_in_x,        \* bolometer_xpos as it was at call entry
    bm_in_y,        \* bolometer_ypos as it was at call entry
    bm_call,        \* the arguments of the call made
    bm_draws,       \* how many numbers the call drew from its generator
    bm_error,       \* "none", or the exception the call raised
    bm_pc           \* "idle", "returned", "raised"

beamVars == <<bolometer_xpos, bolometer_ypos, bm_in_x, bm_in_y, bm_call,
              bm_draws, bm_error, bm_pc>>

VARIABLES
    \* ---- the process around the calls ----
    np_random,      \* the state of numpy's global generator, np.random
    np_draws,       \* how many numbers other code drew from np.random
    calls           \* the calls made so far, each with its inputs and outputs

detVars == <<np_random, np_draws, calls>>

VARIABLES
    \* ---- the scanning strategy: the caller's instance and its clock ----
    scan,           \* the ScanningStrategy instance the caller holds, NoScan
                    \* while it holds none
    date,           \* scan.telescope_location.date, the clock of the instance
    scan_files,     \* the attributes scan0, scan1, ... that run() has set
    scan_file,      \* the dictionary of the caller's own run_one_scan call
    sc_alloc,       \* how many sample arrays (np.zeros, np.ones) were allocated
    sc_call,        \* the call made last, with the instance and the
                    \* allocations as they were before it
    sc_error,       \* "none", or the exception the last call raised
    sc_ncalls       \* how many calls were made

scanVars == <<scan, date, scan_files, scan_file, sc_alloc, sc_call, sc_error,
              sc_ncalls>>

VARIABLES
    \* ---- the date conversions ----
    cv_call         \* the conversion called last: its argument, what it
                    \* returned or raised, the statuses slalib reported

convVars == <<cv_call>>

VARIABLES
    \* ---- the focal-plane convolution ----
    fp_call,        \* the arguments of the convolve_focalplane call made, and
                    \* the exception it raised
    focalplane_nhits \* the map the call returned, None before it

fpVars == <<fp_call, focalplane_nhits>>

vars == <<xtalkVars, workerVars, beamVars, detVars, scanVars, convVars,
          fpVars>>

\* what a crosstalk call, and what a call of modify_beam_offsets, leaves alone
outsideXtalk == <<beamVars, detVars, scanVars, convVars, fpVars>>
outsideBeam == <<xtalkVars, workerVars, detVars, scanVars, convVars, fpVars>>

----------------------------------------------------------------------------
(* Bounds of the model and the sets the inputs are drawn from.             *)

NBolo == 4
MaxRadius == 2

\* None, where the program holds an array or None: the array of no elements
None == <<>>
NoCall == [fn |-> "none", mu |-> 0, sigma |-> 0, radius |-> 0, beta |-> 0,
           seed |-> 0, language |-> "none", order |-> <<>>,
           squid_attenuation |-> 0]
SquidIds == {"SqA", "SqB"}
Betas == {1, 2}
Seeds == {1, 2}
XtalkLanguages == {"python", "fortran", "C"}

Range(n) == 0 .. (n - 1)
Len0(a) == Cardinality(DOMAIN a)
Abs(x) == IF x >= 0 THEN x ELSE 0 - x

RECURSIVE Pow(_, _)
Pow(b, e) == IF e = 0 THEN 1 ELSE b * Pow(b, e - 1)

MaxOf(S) == CHOOSE x \in S : \A y \in S : y <= x

RECURSIVE ProdPow(_, _)
ProdPow(d, e) == IF d = 0 THEN 1 ELSE Pow(d, e) * ProdPow(d - 1, e)

\* Every attenuation d^beta, 0 < d <= MaxRadius, divides AmpScale.
AmpScale == ProdPow(MaxRadius, MaxOf(Betas))

\* mu and sigma in percent, as the caller gives them.
MuPercents == {0}
SigmaPercents == {100 * AmpScale}
SquidAttenuations == {2}

InputData == { [i \in Range(NBolo) |-> i + 1],
               [i \in Range(NBolo) |-> 3 - (i % 2)] }

\* The orders in which a sequence can list the elements of S.
Perms(S) == { p \in [1 .. Cardinality(S) -> S] :
                \A x \in S : \E k \in DOMAIN p : p[k] = x }

----------------------------------------------------------------------------
(* numpy.random.RandomState: a generator of its own, seeded at             *)
(* construction.  The Mersenne twister is modelled by a full-period        *)
(* congruential generator over 8 states, a standard normal deviate by one  *)
(* of three values.                                                        *)

NextRandom(s) == (5 * s + 3) % 8

RECURSIVE Advance(_, _)
Advance(s, k) == IF k = 0 THEN s ELSE Advance(NextRandom(s), k - 1)

Deviate(s) == CASE s % 3 = 0 -> 0 - 1
                [] s % 3 = 1 -> 1
                [] OTHER -> 2

\* the draws taken from the global generator np.random
RandomStateGlobal(seed) == np_random

\* state = np.random.RandomState(seed)
RandomState(seed) == seed % 8

\* state.normal(mu, sigma, n): n draws, the k-th from the k-th next state
normal(state, mu, sigma, n) ==
    [k \in Range(n) |-> mu + sigma * Deviate(Advance(state, k + 1))]

\* mu = mu / 100.
Percent(x) == x \div 100

----------------------------------------------------------------------------
(* The SQUID groups: combs[sq] lists (channel, detector) in detector order *)

RECURSIVE CombsFrom(_, _, _, _, _)
CombsFrom(combs, sqids, chids, bolo, n) ==
    IF bolo >= n THEN combs
    ELSE LET sq == sqids[bolo]
             cur == IF sq \in DOMAIN combs THEN combs[sq] ELSE <<>>
             nxt == [s \in (DOMAIN combs) \cup {sq} |->
                       IF s = sq THEN Append(cur, <<chids[bolo], bolo>>)
                       ELSE combs[s]]
         IN  CombsFrom(nxt, sqids, chids, bolo + 1, n)

Combs(data, sqids, chids) == CombsFrom(<<>>, sqids, chids, 0, Len0(data))

----------------------------------------------------------------------------
(* inject_crosstalk_inside_SQUID, the python kernel                        *)

separation_length(ch, ch2) == Abs(ch - ch2)

\* a guard that forgets the radius
InsideGuardNoRadius(ch, ch2, radius) == separation_length(ch, ch2) > 0

\* if separation_length > 0 and separation_length <= radius
InsideGuard(ch, ch2, radius) ==
    separation_length(ch, ch2) > 0 /\ separation_length(ch, ch2) <= radius

\* the body of the innermost loop: one (ch, i), one (ch2, i2)
InsideAdd(tsout, cross_amp, ch, i, ch2, i2, radius, beta) ==
    IF InsideGuard(ch, ch2, radius)
    THEN [tsout EXCEPT ![i] =
            @ + (cross_amp[i2] \div Pow(separation_length(ch, ch2), beta))
                * tsout[i2]]
    ELSE tsout

\* for ch2, i2 in combs[sq], from position k2 of the list
RECURSIVE InsideInner(_, _, _, _, _, _, _, _)
InsideInner(tsout, cross_amp, lst, ch, i, k2, radius, beta) ==
    IF k2 > Len(lst) THEN tsout
    ELSE InsideInner(
             InsideAdd(tsout, cross_amp, ch, i, lst[k2][1], lst[k2][2],
                       radius, beta),
             cross_amp, lst, ch, i, k2 + 1, radius, beta)

RECURSIVE ConcatLists(_, _)
ConcatLists(combs, S) ==
    IF S = {} THEN <<>>
    ELSE LET x == CHOOSE y \in S : \A z \in S : y[2] <= z[2]
         IN  <<x>> \o ConcatLists(combs, S \ {x})

\* the inner loop over every detector, not those of the SQUID alone
NeighboursAnySquid(combs, sq) ==
    ConcatLists(combs, UNION { { combs[q][k] : k \in DOMAIN combs[q] } :
                                 q \in DOMAIN combs })

\* the list the inner loop runs over: for ch2, i2 in combs[sq]
Neighbours(combs, sq) == combs[sq]

\* for ch, i in combs[sq], from position k of the list
RECURSIVE InsideSquid(_, _, _, _, _, _, _)
InsideSquid(tsout, cross_amp, combs, sq, k, radius, beta) ==
    IF k > Len(combs[sq]) THEN tsout
    ELSE InsideSquid(
             InsideInner(tsout, cross_amp, Neighbours(combs, sq),
                         combs[sq][k][1], combs[sq][k][2], 1, radius, beta),
             cross_amp, combs, sq, k + 1, radius, beta)

\* for sq in combs, in the order the dictionary iterates
RECURSIVE InsidePython(_, _, _, _, _, _, _)
InsidePython(tsout, cross_amp, combs, order, s, radius, beta) ==
    IF s > Len(order) THEN tsout
    ELSE InsidePython(
             InsideSquid(tsout, cross_amp, combs, order[s], 1, radius, beta),
             cross_amp, combs, order, s + 1, radius, beta)

----------------------------------------------------------------------------
(* inject_crosstalk_inside_SQUID, the fortran kernel.  One call per SQUID  *)
(* on the buffer tsout; the routine is compiled from a source that is not  *)
(* part of the python files, and is modelled from its description: every   *)
(* addition reads the buffer as it was when the routine was entered.       *)

RECURSIVE LeakInto(_, _, _, _, _, _, _, _)
LeakInto(snap, cross_amp, lst, ch, i, k2, radius, beta) ==
    IF k2 > Len(lst) THEN 0
    ELSE (IF separation_length(ch, lst[k2][1]) > 0
             /\ separation_length(ch, lst[k2][1]) <= radius
          THEN (cross_amp[lst[k2][2]]
                  \div Pow(separation_length(ch, lst[k2][1]), beta))
               * snap[lst[k2][2]]
          ELSE 0)
         + LeakInto(snap, cross_amp, lst, ch, i, k2 + 1, radius, beta)

inject_crosstalk_inside_squid_f(tsout, cross_amp, lst, radius, beta) ==
    [i \in DOMAIN tsout |->
        IF \E k \in DOMAIN lst : lst[k][2] = i
        THEN LET k == CHOOSE kk \in DOMAIN lst : lst[kk][2] = i
             IN  tsout[i] + LeakInto(tsout, cross_amp, lst, lst[k][1], i, 1,
                                     radius, beta)
        ELSE tsout[i]]

RECURSIVE InsideFortran(_, _, _, _, _, _, _)
InsideFortran(tsout, cross_amp, combs, order, s, radius, beta) ==
    IF s > Len(order) THEN tsout
    ELSE InsideFortran(
             inject_crosstalk_inside_squid_f(tsout, cross_amp,
                                             combs[order[s]], radius, beta),
             cross_amp, combs, order, s + 1, radius, beta)

\* the kernel the language token selects; no branch for any other token
InsideKernelRun(language) ==
    IF language = "python" THEN "python"
    ELSE IF language = "fortran" THEN "fortran"
    ELSE "none"

InsideKernel(tsout, cross_amp, combs, order, radius, beta, language) ==
    IF InsideKernelRun(language) = "python"
    THEN InsidePython(tsout, cross_amp, combs, order, 1, radius, beta)
    ELSE IF InsideKernelRun(language) = "fortran"
    THEN InsideFortran(tsout, cross_amp, combs, order, 1, radius, beta)
    ELSE tsout

----------------------------------------------------------------------------
(* inject_crosstalk_SQUID_to_SQUID                                         *)

\* the body of the innermost loop
S2SAdd(tsout, cross_amp, i, i2, squid_attenuation) ==
    [tsout EXCEPT ![i] = @ + (cross_amp[i2] \div squid_attenuation) * tsout[i2]]

\* for ch2, i2 in combs[sq2], from position k2
RECURSIVE S2SInner(_, _, _, _, _, _)
S2SInner(tsout, cross_amp, lst2, i, k2, squid_attenuation) ==
    IF k2 > Len(lst2) THEN tsout
    ELSE S2SInner(S2SAdd(tsout, cross_amp, i, lst2[k2][2], squid_attenuation),
                  cross_amp, lst2, i, k2 + 1, squid_attenuation)

\* for sq2 in combs, skipping sq1, from position s2 of the iteration order
RECURSIVE S2SOthers(_, _, _, _, _, _, _, _)
S2SOthers(tsout, cross_amp, combs, order, sq1, i, s2, squid_attenuation) ==
    IF s2 > Len(order) THEN tsout
    ELSE S2SOthers(
             IF order[s2] = sq1 THEN tsout
             ELSE S2SInner(tsout, cross_amp, combs[order[s2]], i, 1,
                           squid_attenuation),
             cross_amp, combs, order, sq1, i, s2 + 1, squid_attenuation)

\* for ch, i in combs[sq1], from position k
RECURSIVE S2SSquid(_, _, _, _, _, _, _)
S2SSquid(tsout, cross_amp, combs, order, sq1, k, squid_attenuation) ==
    IF k > Len(combs[sq1]) THEN tsout
    ELSE S2SSquid(
             S2SOthers(tsout, cross_amp, combs, order, sq1,
                       combs[sq1][k][2], 1, squid_attenuation),
             cross_amp, combs, order, sq1, k + 1, squid_attenuation)

\* for sq1 in combs
RECURSIVE S2SPython(_, _, _, _, _, _)
S2SPython(tsout, cross_amp, combs, order, s, squid_attenuation) ==
    IF s > Len(order) THEN tsout
    ELSE S2SPython(
             S2SSquid(tsout, cross_amp, combs, order, order[s], 1,
                      squid_attenuation),
             cross_amp, combs, order, s + 1, squid_attenuation)

----------------------------------------------------------------------------
(* The two calls.                                                          *)

\* tsout = 0.0 + bolo_data: a new array holding the values of bolo_data
CopyOf(data) == data

\* the leakage amplitudes of a call
CrossAmp(mu, sigma, seed, n) ==
    normal(RandomState(seed), Percent(mu), Percent(sigma), n)

\* bolo_data written as well when an output buffer is given
WriteBackAliased(data, newarr, tsout) ==
    IF newarr # None THEN <<tsout, tsout>> ELSE <<tsout, newarr>>

\* if new_array is not None: new_array[:] = tsout; else: bolo_data[:] = tsout
\* gives <<bolo_data, new_array>> after the statement
WriteBack(data, newarr, tsout) ==
    IF newarr # None THEN <<data, tsout>> ELSE <<tsout, newarr>>

\* what inject_crosstalk_inside_SQUID leaves in tsout
InsideResult(data, sqids, chids, mu, sigma, radius, beta, seed, language, order) ==
    InsideKernel(CopyOf(data), CrossAmp(mu, sigma, seed, Len0(data)),
                 Combs(data, sqids, chids), order, radius, beta, language)

\* what inject_crosstalk_SQUID_to_SQUID leaves in tsout
S2SResult(data, sqids, chids, mu, sigma, squid_attenuation, seed, order) ==
    S2SPython(CopyOf(data), CrossAmp(mu, sigma, seed, Len0(data)),
              Combs(data, sqids, chids), order, 1, squid_attenuation)

\* lines 101-105 (211-216): squid_ids[bolo] and bolo_ids[bolo] are read for
\* every bolo in range(len(bolo_data)); an id array with fewer entries
\* raises IndexError there, entries beyond len(bolo_data) are never read
IdsTooShort(data, sqids, chids) ==
    Len0(sqids) < Len0(data) \/ Len0(chids) < Len0(data)

inject_crosstalk_inside_SQUID(mu, sigma, radius, beta, seed, language, order) ==
    /\ xt_pc = "idle"
    /\ IF IdsTooShort(bolo_data, squid_ids, bolo_ids)
       THEN /\ UNCHANGED <<bolo_data, new_array>>
            /\ kernel' = "none"
            /\ xt_pc' = "raised"
       ELSE LET tsout == InsideResult(bolo_data, squid_ids, bolo_ids, mu,
                                      sigma, radius, beta, seed, language,
                                      order)
                wb == WriteBack(bolo_data, new_array, tsout)
            IN  /\ bolo_data' = wb[1]
                /\ new_array' = wb[2]
                /\ kernel' = InsideKernelRun(language)
                /\ xt_pc' = "returned"
    /\ in_data' = bolo_data
    /\ call' = [fn |-> "inside", mu |-> mu, sigma |-> sigma,
                radius |-> radius, beta |-> beta, seed |-> seed,
                language |-> language, order |-> order,
                squid_attenuation |-> 0]
    /\ UNCHANGED <<squid_ids, bolo_ids, workerVars>>

inject_crosstalk_SQUID_to_SQUID(mu, sigma, squid_attenuation, seed, order) ==
    /\ xt_pc = "idle"
    /\ IF IdsTooShort(bolo_data, squid_ids, bolo_ids)
       THEN /\ UNCHANGED <<bolo_data, new_array>>
            /\ kernel' = "none"
            /\ xt_pc' = "raised"
       ELSE LET tsout == S2SResult(bolo_data, squid_ids, bolo_ids, mu, sigma,
                                   squid_attenuation, seed, order)
                wb == WriteBack(bolo_data, new_array, tsout)
            IN  /\ bolo_data' = wb[1]
                /\ new_array' = wb[2]
                /\ kernel' = "python"
                /\ xt_pc' = "returned"
    /\ in_data' = bolo_data
    /\ call' = [fn |-> "s2s", mu |-> mu, sigma |-> sigma,
                radius |-> 0, beta |-> 0, seed |-> seed,
                language |-> "python", order |-> order,
                squid_attenuation |-> squid_attenuation]
    /\ UNCHANGED <<squid_ids, bolo_ids, workerVars>>

\* How the caller numbers the channels: the position of the detector in its
\* SQUID (the focal plane's bolo_index_in_squid), the detector index, one
\* channel for two detectors, every other channel.
ChannelLayouts == {"index_in_squid", "global", "shared", "sparse"}

ChannelLayout(l, sqids) ==
    [i \in DOMAIN sqids |->
        CASE l = "index_in_squid" ->
                 Cardinality({j \in DOMAIN sqids : j < i /\ sqids[j] = sqids[i]})
          [] l = "global" -> i
          [] l = "shared" -> i \div 2
          [] OTHER -> 2 * i]

NoBeamCall == [seed |-> 0, mu_diffpointing |-> 0, sigma_diffpointing |-> 0]

BeamIdle ==
    /\ bolometer_xpos = None
    /\ bolometer_ypos = None
    /\ bm_in_x = None
    /\ bm_in_y = None
    /\ bm_call = NoBeamCall
    /\ bm_draws = 0
    /\ bm_error = "none"
    /\ bm_pc = "idle"

\* no ScanningStrategy was constructed
NoScan == [bound |-> FALSE, nces |-> 0, start_date |-> 0,
           name_strategy |-> "", sampling_freq |-> 0, sky_speed |-> 0,
           language |-> "", allowed_scanning_strategies |-> <<>>,
           has_boundary |-> FALSE]

NoScanCall == [op |-> "none", name_strategy |-> "", language |-> "",
               scan_number |-> 0, scan_before |-> NoScan, alloc_before |-> 0,
               date_before |-> 0, files_before |-> <<>>]

ScanIdle ==
    /\ scan = NoScan
    /\ date = 0
    /\ scan_files = <<>>
    /\ scan_file = <<>>
    /\ sc_alloc = 0
    /\ sc_call = NoScanCall
    /\ sc_error = "none"
    /\ sc_ncalls = 0

\* no date conversion was called
NoConv == [fn |-> "none", arg |-> <<>>, of |-> <<>>, out |-> <<>>,
           error |-> "none", status |-> <<0, 0>>]

ConvIdle == cv_call = NoConv

\* convolve_focalplane was not called
NoFpCall == [called |-> FALSE, bore_nhits |-> <<>>, nbolos |-> 0,
             fp_radius_amin |-> 0, boost |-> 0, language |-> "",
             error |-> "none"]

FpIdle ==
    /\ fp_call = NoFpCall
    /\ focalplane_nhits = None

\* nothing drawn from np.random, no call made
DetIdle ==
    /\ np_random = 0
    /\ np_draws = 0
    /\ calls = <<>>

\* no call of the step-by-step kernel is in progress
WorkersIdle ==
    /\ w_tsout = None
    /\ w_pos = <<>>
    /\ w_acc = <<>>
    /\ w_overlap = FALSE

\* The caller's arrays before the call: timestreams, the SQUID and the
\* channel of every detector, and the output buffer (np.zeros_like) or None.
XtalkInit ==
    /\ bolo_data \in InputData
    /\ squid_ids \in [Range(NBolo) -> SquidIds]
    /\ bolo_ids \in { ChannelLayout(l, squid_ids) : l \in ChannelLayouts }
    /\ new_array \in {None, [i \in Range(NBolo) |-> 0]}
    /\ in_data = None
    /\ call = NoCall
    /\ kernel = "none"
    /\ xt_pc = "idle"
    /\ WorkersIdle

\* the SQUID ids the loop over the detectors meets, the keys of combs
SquidsOf(sqids) == { sqids[b] : b \in DOMAIN sqids \cap DOMAIN bolo_data }

CallInside ==
    \E mu \in MuPercents, sigma \in SigmaPercents, radius \in 0 .. MaxRadius,
       beta \in Betas, seed \in Seeds, language \in XtalkLanguages,
       order \in Perms(SquidsOf(squid_ids)) :
        /\ inject_crosstalk_inside_SQUID(mu, sigma, radius, beta, seed,
                                         language, order)
        /\ UNCHANGED outsideXtalk

CallS2S ==
    \E mu \in MuPercents, sigma \in SigmaPercents,
       squid_attenuation \in SquidAttenuations, seed \in Seeds,
       order \in Perms(SquidsOf(squid_ids)) :
        /\ inject_crosstalk_SQUID_to_SQUID(mu, sigma, squid_attenuation,
                                           seed, order)
        /\ UNCHANGED outsideXtalk

XtalkNext == CallInside \/ CallS2S

XtalkStart ==
    /\ XtalkInit
    /\ BeamIdle
    /\ DetIdle
    /\ ScanIdle
    /\ ConvIdle
    /\ FpIdle

SpecXtalk == XtalkStart /\ [][XtalkNext]_vars

\* The same calls by a caller whose id arrays need not have one entry per
\* detector: one entry less, as many, or one more.
IdLengths == {NBolo - 1, NBolo, NBolo + 1}

XtalkAnyLengthInit ==
    /\ bolo_data \in InputData
    /\ squid_ids \in UNION { [Range(n) -> SquidIds] : n \in IdLengths }
    /\ bolo_ids \in { [i \in Range(n) |-> i] : n \in IdLengths }
    /\ new_array \in {None, [i \in Range(NBolo) |-> 0]}
    /\ in_data = None
    /\ call = NoCall
    /\ kernel = "none"
    /\ xt_pc = "idle"
    /\ WorkersIdle
    /\ BeamIdle
    /\ DetIdle
    /\ ScanIdle
    /\ ConvIdle
    /\ FpIdle

SpecXtalkAnyLength == XtalkAnyLengthInit /\ [][XtalkNext]_vars

----------------------------------------------------------------------------
(* Properties of the two crosstalk calls.                                  *)

\* the array that holds the contaminated timestreams after the call
OutBuffer == IF new_array # None THEN new_array ELSE bolo_data

RECURSIVE SetSum(_, _)
SetSum(f, S) == IF S = {} THEN 0
                ELSE LET x == CHOOSE y \in S : TRUE
                     IN  f[x] + SetSum(f, S \ {x})

\* in[i] plus the leakage of every detector of the same SQUID at channel
\* separation 0 < d <= radius, all read from in[]
SnapshotInside(in, cross_amp, sqids, chids, radius, beta) ==
    [i \in DOMAIN in |->
        in[i] + SetSum(
            [j \in DOMAIN in |->
                (cross_amp[j] \div Pow(Abs(chids[i] - chids[j]), beta)) * in[j]],
            { j \in DOMAIN in : /\ sqids[j] = sqids[i]
                                /\ Abs(chids[i] - chids[j]) > 0
                                /\ Abs(chids[i] - chids[j]) <= radius })]

\* C1: inject_crosstalk_inside_SQUID has snapshot semantics: after the call
\* (python kernel) every output timestream is in[i] plus the sum, over the
\* detectors j of the same SQUID with 0 < |ch_i - ch_j| <= radius, of
\* cross_amp[j] / |ch_i - ch_j|^beta * in[j], in[] being the timestreams at
\* call entry.
C1_InsideReadsSnapshot ==
    (xt_pc = "returned" /\ call.fn = "inside" /\ kernel = "python") =>
        OutBuffer = SnapshotInside(
                        in_data,
                        CrossAmp(call.mu, call.sigma, call.seed, Len0(in_data)),
                        squid_ids, bolo_ids, call.radius, call.beta)

\* C2: inject_crosstalk_SQUID_to_SQUID does not depend on the order in which
\* the SQUIDs are processed: the timestreams the call produced are those
\* every permutation of the SQUID iteration order produces from the same
\* timestreams, SQUID membership and seed.
C2_S2SOrderInvariant ==
    (xt_pc = "returned" /\ call.fn = "s2s") =>
        \A order \in Perms(SquidsOf(squid_ids)) :
            S2SResult(in_data, squid_ids, bolo_ids, call.mu, call.sigma,
                      call.squid_attenuation, call.seed, order) = OutBuffer

\* the contaminated timestreams of the call made, from the values at entry
Contaminated ==
    IF call.fn = "inside"
    THEN InsideResult(in_data, squid_ids, bolo_ids, call.mu, call.sigma,
                      call.radius, call.beta, call.seed, call.language,
                      call.order)
    ELSE S2SResult(in_data, squid_ids, bolo_ids, call.mu, call.sigma,
                   call.squid_attenuation, call.seed, call.order)

\* C4: for both crosstalk functions, with new_array supplied bolo_data is
\* left as it was at entry and new_array holds the contaminated timestreams;
\* with new_array None bolo_data holds them.  The contaminated values are
\* the same function of the entry values and arguments in both modes.
C4_OutputBufferModes ==
    (xt_pc = "returned") =>
        IF new_array # None
        THEN bolo_data = in_data /\ new_array = Contaminated
        ELSE bolo_data = Contaminated

\* a call with an output buffer that contaminated at least one timestream
C4_Witness ==
    /\ xt_pc = "returned"
    /\ new_array # None
    /\ new_array # in_data
    /\ bolo_data = in_data

\* C10 (within-SQUID crosstalk): a call with a language token the kernel
\* does not support does not return normally: whenever the call returned, a
\* kernel was executed.
C10_UnsupportedLanguageRejected ==
    (xt_pc = "returned" /\ call.fn = "inside") => kernel # "none"

\* the detectors that leak into detector i: those of its own SQUID at a
\* channel separation d, 0 < d <= radius
LeakersOf(i, radius) ==
    { j \in DOMAIN in_data :
        /\ squid_ids[j] = squid_ids[i]
        /\ Abs(bolo_ids[i] - bolo_ids[j]) > 0
        /\ Abs(bolo_ids[i] - bolo_ids[j]) <= radius }

\* timestream j raised by one
Bumped(data, j) == [data EXCEPT ![j] = @ + 1]

\* C24: inject_crosstalk_inside_SQUID leaves unchanged every detector that
\* has no other detector of its own SQUID at channel separation d with
\* 0 < d <= radius: none receives leakage from itself, from a same-SQUID
\* detector at separation 0 or beyond the radius, or from a detector of
\* another SQUID (whose timestream has no influence on it at all), and
\* radius = 0 leaves every timestream unchanged.
C24_OnlyNeighboursInRadiusLeak ==
    (xt_pc = "returned" /\ call.fn = "inside") =>
        /\ \A i \in DOMAIN in_data :
               LeakersOf(i, call.radius) = {} => OutBuffer[i] = in_data[i]
        /\ call.radius = 0 => OutBuffer = in_data
        /\ \A i, j \in DOMAIN in_data :
               squid_ids[j] # squid_ids[i] =>
                   InsideResult(Bumped(in_data, j), squid_ids, bolo_ids,
                                call.mu, call.sigma, call.radius, call.beta,
                                call.seed, call.language, call.order)[i]
                       = OutBuffer[i]

\* a call of the python kernel that changed some timestream and left alone
\* a detector that has, in its own SQUID, only detectors beyond the radius,
\* and detectors of another SQUID beside it
C24_Witness ==
    /\ xt_pc = "returned"
    /\ call.fn = "inside"
    /\ kernel = "python"
    /\ call.radius > 0
    /\ OutBuffer # in_data
    /\ \E i, k, l \in DOMAIN in_data :
           /\ LeakersOf(i, call.radius) = {}
           /\ OutBuffer[i] = in_data[i]
           /\ squid_ids[k] = squid_ids[i]
           /\ Abs(bolo_ids[k] - bolo_ids[i]) > call.radius
           /\ OutBuffer[k] # in_data[k]
           /\ squid_ids[l] # squid_ids[i]

\* an id array has not one entry per detector
IdLengthMismatch ==
    Len0(squid_ids) # Len0(in_data) \/ Len0(bolo_ids) # Len0(in_data)

\* C26: both crosstalk functions reject at call entry, with bolo_data and
\* new_array unmodified, every call in which squid_ids or bolo_ids has not
\* the length of bolo_data, whether the id array is shorter or longer than
\* the detector batch.
C26_IdLengthMismatchRejected ==
    (xt_pc # "idle" /\ IdLengthMismatch) =>
        /\ xt_pc = "raised"
        /\ bolo_data = in_data
        /\ new_array \in {None, [i \in Range(NBolo) |-> 0]}

----------------------------------------------------------------------------
(* modify_beam_offsets.  Lengths are counted in half arcseconds, so that   *)
(* rho / 2 is exact; angles are drawn among the multiples of 90 degrees,   *)
(* where the cosine and the sine are integers.                             *)

MaxBeamLen == 5

\* arcsecond2rad: arcseconds to the unit of length, the half arcsecond
arcsecond2rad(a) == 2 * a

\* deg2rad: degrees to the unit of angle, the quarter turn
deg2rad(d) == d \div 90

\* state.uniform(0, 360, n): n draws, in degrees
uniform360(state, n) == [k \in Range(n) |-> 90 * (Advance(state, k + 1) % 4)]

Cos(theta) == CASE theta % 4 = 0 -> 1
                [] theta % 4 = 2 -> 0 - 1
                [] OTHER -> 0

Sin(theta) == CASE theta % 4 = 1 -> 1
                [] theta % 4 = 3 -> 0 - 1
                [] OTHER -> 0

SameLengthUnchecked(xpos, ypos) == TRUE

\* the check of the assert statement
SameLength(xpos, ypos) == Len0(xpos) = Len0(ypos)

\* npair = int(len(bolometer_xpos) / 2)
NPair(xpos) == Len0(xpos) \div 2

\* the indices of a[first::2]
Stride2(a, first) == { i \in DOMAIN a : i >= first /\ (i - first) % 2 = 0 }

\* numpy's rule for a[first::2] += b: b has the length of the slice, or
\* length 1 and is added to every element of the slice
Broadcasts(a, first, b) ==
    \/ Len0(b) = Cardinality(Stride2(a, first))
    \/ Len0(b) = 1

\* a after a[first::2] += sign * b, when b broadcasts
AddStride2(a, first, b, sign) ==
    [i \in DOMAIN a |->
        IF i \in Stride2(a, first)
        THEN a[i] + sign * (IF Len0(b) = 1 THEN b[0] ELSE b[(i - first) \div 2])
        ELSE a[i]]

BottomSignSame == 0 + 1

\* the sign of the displacement of the odd-indexed detectors
BottomSign == 0 - 1

\* rho, theta, rhox, rhoy of a call
Rho(seed, mu, sigma, npair) ==
    normal(RandomState(seed), arcsecond2rad(mu), arcsecond2rad(sigma), npair)

Theta(seed, npair) ==
    LET deg == uniform360(Advance(RandomState(seed), npair), npair)
    IN  [k \in Range(npair) |-> deg2rad(deg[k])]

RhoX(seed, mu, sigma, npair) ==
    [k \in Range(npair) |->
        (Rho(seed, mu, sigma, npair)[k] \div 2) * Cos(Theta(seed, npair)[k])]

RhoY(seed, mu, sigma, npair) ==
    [k \in Range(npair) |->
        (Rho(seed, mu, sigma, npair)[k] \div 2) * Sin(Theta(seed, npair)[k])]

\* Lines 303-306, one statement after the other; a statement whose operand
\* does not broadcast raises ValueError and leaves what the earlier
\* statements wrote.  Gives <<xpos, ypos, error>>.
ApplyOffsets(xpos, ypos, rhox, rhoy) ==
    IF ~Broadcasts(xpos, 0, rhox) THEN <<xpos, ypos, "ValueError">>
    ELSE LET x1 == AddStride2(xpos, 0, rhox, 1)
         IN
    IF ~Broadcasts(x1, 1, rhox) THEN <<x1, ypos, "ValueError">>
    ELSE LET x2 == AddStride2(x1, 1, rhox, BottomSign)
         IN
    IF ~Broadcasts(ypos, 0, rhoy) THEN <<x2, ypos, "ValueError">>
    ELSE LET y1 == AddStride2(ypos, 0, rhoy, 1)
         IN
    IF ~Broadcasts(y1, 1, rhoy) THEN <<x2, y1, "ValueError">>
    ELSE <<x2, AddStride2(y1, 1, rhoy, BottomSign), "none">>

\* the arrays of the first call of the caller, None before it
Nominal(c) == IF calls = <<>> THEN None ELSE calls[1].input[c]

\* the += statements applied to the nominal offsets of the first call
ActsOnNominal(current, nominal) ==
    IF nominal = None THEN current ELSE nominal

\* lines 303-306: the += statements act on the caller's arrays themselves,
\* as they are at call entry
ActsInPlace(current, nominal) == current

modify_beam_offsets(mu, sigma, seed) ==
    /\ bm_in_x' = bolometer_xpos
    /\ bm_in_y' = bolometer_ypos
    /\ bm_call' = [seed |-> seed, mu_diffpointing |-> mu,
                   sigma_diffpointing |-> sigma]
    /\ IF ~SameLength(bolometer_xpos, bolometer_ypos)
       THEN /\ bm_error' = "AssertionError"
            /\ bm_pc' = "raised"
            /\ bm_draws' = 0
            /\ UNCHANGED <<bolometer_xpos, bolometer_ypos>>
       ELSE LET npair == NPair(bolometer_xpos)
                res == ApplyOffsets(ActsInPlace(bolometer_xpos, Nominal(1)),
                                    ActsInPlace(bolometer_ypos, Nominal(2)),
                                    RhoX(seed, mu, sigma, npair),
                                    RhoY(seed, mu, sigma, npair))
            IN  /\ bolometer_xpos' = res[1]
                /\ bolometer_ypos' = res[2]
                /\ bm_error' = res[3]
                /\ bm_pc' = IF res[3] = "none" THEN "returned" ELSE "raised"
                /\ bm_draws' = 2 * npair

BeamMus == {2}
BeamSigmas == {1, 2}

\* the caller's arrays: any two lengths up to MaxBeamLen
BeamInit ==
    /\ \E n \in 0 .. MaxBeamLen :
          bolometer_xpos = [i \in Range(n) |-> 10 * (i + 1)]
    /\ \E n \in 0 .. MaxBeamLen :
          bolometer_ypos = [i \in Range(n) |-> 0 - 10 * (i + 1)]
    /\ bm_in_x = None
    /\ bm_in_y = None
    /\ bm_call = NoBeamCall
    /\ bm_draws = 0
    /\ bm_error = "none"
    /\ bm_pc = "idle"

XtalkIdle ==
    /\ bolo_data = None
    /\ squid_ids = None
    /\ bolo_ids = None
    /\ new_array = None
    /\ in_data = None
    /\ call = NoCall
    /\ kernel = "none"
    /\ xt_pc = "idle"
    /\ WorkersIdle

CallBeam ==
    \E mu \in BeamMus, sigma \in BeamSigmas, seed \in Seeds :
        /\ bm_pc = "idle"
        /\ modify_beam_offsets(mu, sigma, seed)
        /\ UNCHANGED outsideBeam

BeamNext == CallBeam

BeamStart ==
    /\ BeamInit
    /\ XtalkIdle
    /\ DetIdle
    /\ ScanIdle
    /\ ConvIdle
    /\ FpIdle

SpecBeam == BeamStart /\ [][BeamNext]_vars

\* how many times the caller passes the same arrays
MaxBeamCalls == 3

\* x, y = modify_beam_offsets(x, y, ...) again and again: the caller passes
\* the arrays the call before returned, with the same seed and parameters
CallBeamRepeat ==
    \E mu \in BeamMus, sigma \in BeamSigmas, seed \in Seeds :
        /\ bm_pc \in {"idle", "returned"}
        /\ Len(calls) < MaxBeamCalls
        /\ calls # <<>> =>
               bm_call = [seed |-> seed, mu_diffpointing |-> mu,
                          sigma_diffpointing |-> sigma]
        /\ modify_beam_offsets(mu, sigma, seed)
        /\ calls' = Append(calls,
                           [fn |-> "beam", seed |-> seed,
                            input |-> <<bolometer_xpos, bolometer_ypos,
                                        mu, sigma>>,
                            output |-> <<bolometer_xpos', bolometer_ypos'>>,
                            np |-> np_random])
        /\ UNCHANGED <<np_random, np_draws>>
        /\ UNCHANGED <<xtalkVars, workerVars, scanVars, convVars, fpVars>>

BeamRepeatNext == CallBeamRepeat

SpecBeamRepeat == BeamStart /\ [][BeamRepeatNext]_vars

----------------------------------------------------------------------------
(* Properties of modify_beam_offsets.                                      *)

\* C6: the two detectors of every pair (2k, 2k+1) are displaced by exactly
\* opposite vectors, along x and along y, whatever the seed: the midpoint
\* of the pair is preserved.
C6_PairDisplacedOppositely ==
    (bm_pc = "returned") =>
        \A k \in Range(NPair(bm_in_x)) :
            /\ bolometer_xpos[2 * k] - bm_in_x[2 * k]
                 = 0 - (bolometer_xpos[2 * k + 1] - bm_in_x[2 * k + 1])
            /\ bolometer_ypos[2 * k] - bm_in_y[2 * k]
                 = 0 - (bolometer_ypos[2 * k + 1] - bm_in_y[2 * k + 1])

\* two pairs, the second one displaced
C6_Witness ==
    /\ bm_pc = "returned"
    /\ Len0(bm_in_x) >= 4
    /\ \/ bolometer_xpos[2] # bm_in_x[2]
       \/ bolometer_ypos[2] # bm_in_y[2]

\* C7: with x and y arrays of different lengths the call fails with the
\* length-mismatch error at entry: no random number is drawn and neither
\* array is modified.
C7_LengthMismatchFailsAtEntry ==
    (bm_pc # "idle" /\ Len0(bm_in_x) # Len0(bm_in_y)) =>
        /\ bm_pc = "raised"
        /\ bm_error = "AssertionError"
        /\ bm_draws = 0
        /\ bolometer_xpos = bm_in_x
        /\ bolometer_ypos = bm_in_y

\* a call with arrays that would otherwise have gone through
C7_Witness ==
    /\ bm_pc = "raised"
    /\ Len0(bm_in_x) = 2
    /\ Len0(bm_in_y) = 4

\* C8: x/y arrays of odd length are rejected with an error and are left
\* unmodified.
C8_OddLengthRejected ==
    (/\ bm_pc # "idle"
     /\ Len0(bm_in_x) = Len0(bm_in_y)
     /\ Len0(bm_in_x) % 2 = 1) =>
        /\ bm_pc = "raised"
        /\ bolometer_xpos = bm_in_x
        /\ bolometer_ypos = bm_in_y

\* C27: modify_beam_offsets mutates the caller's arrays in place and returns
\* those same arrays, so it is not idempotent: applied k times with the same
\* seed to the same arrays it displaces every detector by k times the
\* displacement of a single call from its original position.
C27_DisplacementAccumulates ==
    bm_pc = "returned" =>
        /\ bolometer_xpos = calls[Len(calls)].output[1]
        /\ bolometer_ypos = calls[Len(calls)].output[2]
        /\ \A k \in DOMAIN calls :
               /\ k > 1 => /\ calls[k].input[1] = calls[k - 1].output[1]
                           /\ calls[k].input[2] = calls[k - 1].output[2]
               /\ \A c \in {1, 2} : \A i \in DOMAIN Nominal(c) :
                      calls[k].output[c][i] - Nominal(c)[i] =
                          k * (calls[1].output[c][i] - Nominal(c)[i])

\* three calls on two pairs of detectors, the first detector displaced along
\* x or along y by a single call
C27_Witness ==
    /\ bm_pc = "returned"
    /\ Len(calls) = 3
    /\ Len0(bolometer_xpos) = 4
    /\ \/ calls[1].output[1][0] # Nominal(1)[0]
       \/ calls[1].output[2][0] # Nominal(2)[0]
    /\ calls[3].output # calls[2].output
    /\ calls[2].output # calls[1].output

----------------------------------------------------------------------------
(* inject_crosstalk_inside_SQUID with the python kernel taken apart: the   *)
(* SQUID groups of "for sq in combs" are units of work, one worker each,   *)
(* all on the buffer tsout.  A worker runs the two inner loops of its      *)
(* SQUID in the order of the code; tsout[i] += ... is a read of tsout[i]   *)
(* and tsout[i2] followed by a write of tsout[i].                          *)

WorkerCombs == Combs(in_data, squid_ids, bolo_ids)
WorkerAmp == CrossAmp(call.mu, call.sigma, call.seed, Len0(in_data))

\* the iterations of the two inner loops of a SQUID
WorkerTotal(sq) == Len(WorkerCombs[sq]) * Len(Neighbours(WorkerCombs, sq))

\* the (ch, i) and the (ch2, i2) of iteration p of a SQUID
WorkerOuter(sq, p) ==
    WorkerCombs[sq][(p \div Len(Neighbours(WorkerCombs, sq))) + 1]
WorkerInner(sq, p) ==
    Neighbours(WorkerCombs, sq)[(p % Len(Neighbours(WorkerCombs, sq))) + 1]

\* lines 96-112: the groups, the copy, the amplitudes, the python branch
EnterInsidePython(mu, sigma, radius, beta, seed) ==
    /\ xt_pc = "idle"
    /\ in_data' = bolo_data
    /\ call' = [fn |-> "inside", mu |-> mu, sigma |-> sigma,
                radius |-> radius, beta |-> beta, seed |-> seed,
                language |-> "python", order |-> <<>>,
                squid_attenuation |-> 0]
    /\ kernel' = InsideKernelRun("python")
    /\ xt_pc' = "kernel"
    /\ w_tsout' = CopyOf(bolo_data)
    /\ w_pos' = [sq \in SquidsOf(squid_ids) |-> 0]
    /\ w_acc' = [sq \in SquidsOf(squid_ids) |-> <<>>]
    /\ UNCHANGED <<bolo_data, squid_ids, bolo_ids, new_array, w_overlap,
                   outsideXtalk>>

\* the guard of the next iteration of sq and, when it holds, the right-hand
\* side of tsout[i] += cross_amp[i2] / separation_length**beta * tsout[i2]
WorkerRead(sq) ==
    /\ xt_pc = "kernel"
    /\ w_acc[sq] = <<>>
    /\ w_pos[sq] < WorkerTotal(sq)
    /\ LET o == WorkerOuter(sq, w_pos[sq])
           n == WorkerInner(sq, w_pos[sq])
       IN  IF InsideGuard(o[1], n[1], call.radius)
           THEN /\ w_acc' = [w_acc EXCEPT ![sq] =
                       <<InsideAdd(w_tsout, WorkerAmp, o[1], o[2], n[1], n[2],
                                   call.radius, call.beta)[o[2]]>>]
                /\ w_overlap' = (w_overlap
                                   \/ \E t \in DOMAIN w_acc :
                                         t # sq /\ w_acc[t] # <<>>)
                /\ UNCHANGED w_pos
           ELSE /\ w_pos' = [w_pos EXCEPT ![sq] = @ + 1]
                /\ UNCHANGED <<w_acc, w_overlap>>
    /\ UNCHANGED <<xtalkVars, w_tsout, outsideXtalk>>

\* the store into tsout[i]
WorkerWrite(sq) ==
    /\ xt_pc = "kernel"
    /\ w_acc[sq] # <<>>
    /\ w_tsout' = [w_tsout EXCEPT ![WorkerOuter(sq, w_pos[sq])[2]] =
                      w_acc[sq][1]]
    /\ w_acc' = [w_acc EXCEPT ![sq] = <<>>]
    /\ w_pos' = [w_pos EXCEPT ![sq] = @ + 1]
    /\ UNCHANGED <<xtalkVars, w_overlap, outsideXtalk>>

\* lines 132-135, once every group is done
ReturnInside ==
    /\ xt_pc = "kernel"
    /\ \A sq \in DOMAIN w_pos : w_pos[sq] = WorkerTotal(sq)
    /\ LET wb == WriteBack(bolo_data, new_array, w_tsout)
       IN  /\ bolo_data' = wb[1]
           /\ new_array' = wb[2]
    /\ xt_pc' = "returned"
    /\ UNCHANGED <<squid_ids, bolo_ids, in_data, call, kernel, workerVars,
                   outsideXtalk>>

EnterWorkers ==
    \E mu \in MuPercents, sigma \in SigmaPercents, radius \in 1 .. MaxRadius,
       beta \in Betas, seed \in Seeds :
        EnterInsidePython(mu, sigma, radius, beta, seed)

StepRead == \E sq \in SquidIds : sq \in DOMAIN w_pos /\ WorkerRead(sq)
StepWrite == \E sq \in SquidIds : sq \in DOMAIN w_pos /\ WorkerWrite(sq)

WorkersNext == EnterWorkers \/ StepRead \/ StepWrite \/ ReturnInside

\* the caller's arrays of a call made in place on the first input
WorkersInit ==
    /\ XtalkInit
    /\ bolo_data = [i \in Range(NBolo) |-> i + 1]
    /\ new_array = None

WorkersStart ==
    /\ WorkersInit
    /\ BeamIdle
    /\ DetIdle
    /\ ScanIdle
    /\ ConvIdle
    /\ FpIdle

SpecWorkers == WorkersStart /\ [][WorkersNext]_vars

\* C3: the SQUID groups are independent units of work: whatever the
\* interleaving of the workers' reads and writes on the shared buffer, the
\* timestreams the call leaves are those of the sequential loop, in any
\* order of the SQUID groups.
C3_SquidGroupsIndependent ==
    (xt_pc = "returned" /\ w_tsout # None) =>
        \A order \in Perms(SquidsOf(squid_ids)) :
            OutBuffer = InsideResult(in_data, squid_ids, bolo_ids, call.mu,
                                     call.sigma, call.radius, call.beta,
                                     call.seed, "python", order)

\* a call that returned after two workers overlapped, both SQUIDs
\* contaminated
C3_Witness ==
    /\ xt_pc = "returned"
    /\ w_overlap
    /\ \A sq \in SquidIds :
          \E i \in DOMAIN in_data :
              squid_ids[i] = sq /\ OutBuffer[i] # in_data[i]

----------------------------------------------------------------------------
(* A process that calls the three stochastic models again and again, on    *)
(* fresh arrays each time, while other code draws from numpy's global      *)
(* generator.                                                              *)

MaxCalls == 2
MaxOtherDraws == 1

\* within one process a dictionary of the same keys, inserted in the same
\* order, iterates in the same order at every call
RECURSIVE DictOrderFrom(_, _, _)
DictOrderFrom(sqids, bolo, seen) ==
    IF bolo >= Len0(sqids) THEN seen
    ELSE DictOrderFrom(
             sqids, bolo + 1,
             IF \E k \in DOMAIN seen : seen[k] = sqids[bolo] THEN seen
             ELSE Append(seen, sqids[bolo]))

DictOrder(sqids) == DictOrderFrom(sqids, 0, <<>>)

DetInit ==
    /\ XtalkInit
    /\ squid_ids = [i \in Range(NBolo) |-> IF i % 2 = 0 THEN "SqA" ELSE "SqB"]
    /\ bolo_ids = ChannelLayout("index_in_squid", squid_ids)
    /\ new_array = None
    /\ BeamInit
    /\ Len0(bolometer_xpos) = 4
    /\ Len0(bolometer_ypos) = 4
    /\ DetIdle
    /\ ScanIdle
    /\ ConvIdle
    /\ FpIdle

Log(fn, seed, input, output) ==
    /\ Len(calls) < MaxCalls
    /\ calls' = Append(calls, [fn |-> fn, seed |-> seed, input |-> input,
                               output |-> output, np |-> np_random])
    /\ UNCHANGED <<np_random, np_draws>>

DetInside ==
    \E mu \in MuPercents, sigma \in SigmaPercents, seed \in Seeds :
        /\ inject_crosstalk_inside_SQUID(mu, sigma, 1, 2, seed, "python",
                                         DictOrder(squid_ids))
        /\ Log("inside", seed, <<bolo_data, squid_ids, bolo_ids, mu, sigma>>,
               bolo_data')
        /\ UNCHANGED <<beamVars, scanVars, convVars, fpVars>>

DetS2S ==
    \E mu \in MuPercents, sigma \in SigmaPercents,
       squid_attenuation \in SquidAttenuations, seed \in Seeds :
        /\ inject_crosstalk_SQUID_to_SQUID(mu, sigma, squid_attenuation,
                                           seed, DictOrder(squid_ids))
        /\ Log("s2s", seed,
               <<bolo_data, squid_ids, bolo_ids, mu, sigma, squid_attenuation>>,
               bolo_data')
        /\ UNCHANGED <<beamVars, scanVars, convVars, fpVars>>

DetBeam ==
    \E mu \in BeamMus, sigma \in {MaxOf(BeamSigmas)}, seed \in Seeds :
        /\ bm_pc = "idle"
        /\ modify_beam_offsets(mu, sigma, seed)
        /\ Log("beam", seed, <<bolometer_xpos, bolometer_ypos, mu, sigma>>,
               <<bolometer_xpos', bolometer_ypos'>>)
        /\ UNCHANGED <<xtalkVars, workerVars, scanVars, convVars, fpVars>>

\* the caller takes fresh arrays
NewArrays ==
    /\ xt_pc # "idle" \/ bm_pc # "idle"
    /\ bolo_data' \in InputData
    /\ new_array' = None
    /\ in_data' = None
    /\ call' = NoCall
    /\ kernel' = "none"
    /\ xt_pc' = "idle"
    /\ bolometer_xpos' = [i \in Range(4) |-> 10 * (i + 1)]
    /\ bolometer_ypos' = [i \in Range(4) |-> 0 - 10 * (i + 1)]
    /\ bm_in_x' = None
    /\ bm_in_y' = None
    /\ bm_call' = NoBeamCall
    /\ bm_draws' = 0
    /\ bm_error' = "none"
    /\ bm_pc' = "idle"
    /\ UNCHANGED <<squid_ids, bolo_ids, workerVars, detVars, scanVars,
                   convVars, fpVars>>

\* other code draws a number from np.random
OtherDraw ==
    /\ np_draws < MaxOtherDraws
    /\ np_random' = NextRandom(np_random)
    /\ np_draws' = np_draws + 1
    /\ UNCHANGED <<xtalkVars, workerVars, beamVars, calls, scanVars,
                   convVars, fpVars>>

DetNext == DetInside \/ DetS2S \/ DetBeam \/ NewArrays \/ OtherDraw

SpecDet == DetInit /\ [][DetNext]_vars

\* C5: each stochastic model is a function of its input values, its
\* parameters and its seed: two calls of the same model from equal inputs
\* with the same seed give equal outputs, whatever was called before and
\* whatever the state of the global generator.
C5_SeededCallsRepeat ==
    \A a \in DOMAIN calls, b \in DOMAIN calls :
        (/\ calls[a].fn = calls[b].fn
         /\ calls[a].seed = calls[b].seed
         /\ calls[a].input = calls[b].input) =>
            calls[a].output = calls[b].output

\* the same call made twice, the global generator in another state the
\* second time, and the call changed its arrays
C5_Witness ==
    /\ Len(calls) >= 2
    /\ calls[1].fn = calls[2].fn
    /\ calls[1].seed = calls[2].seed
    /\ calls[1].input = calls[2].input
    /\ calls[1].np # calls[2].np
    /\ calls[1].output # calls[1].input[1]


----------------------------------------------------------------------------
(* The scanning strategy (s4cmb/scanning_strategy.py).                     *)
(*                                                                         *)
(* Time is counted in ticks, TicksPerSecond to the second; a date, an MJD  *)
(* and a sidereal time are numbers of ticks.  The catalogue of deep_patch  *)
(* keeps its twelve slots and their shape (slot 0, ten equal slots whose   *)
(* window wraps over the end of the sidereal day, slot 11), on a small     *)
(* scale: the sidereal day lasts sidDayToSec = 24 seconds, so that an hour *)
(* of the catalogue is a second of the model, the civil day lasts one tick *)
(* more, and the elevations are angles whose secant is an integer.         *)
(* Angles are whole degrees; a radian value is counted in units of pi/360. *)
(***************************************************************************)
TicksPerSecond == 2

sidDayToSec == 24

SidDayTicks == sidDayToSec * TicksPerSecond

\* 24 * ephem.second * 3600, the day added after every scan: the civil day
\* is a little longer than the sidereal day, one tick here
OneDay == SidDayTicks + 1

\* no pad at all
NoPadding == 0 * TicksPerSecond

\* 10.0 / 86400.0, ten seconds
time_padding == 10 * TicksPerSecond

\* x * np.pi / 180
DegToRad(x) == 2 * x

\* 1 / np.cos(el / radToDeg), for the elevations of the catalogue
Sec(el) == IF el = 60 THEN 2 ELSE 1

\* lines 149-169: the tables define_boundary_of_scan stores for deep_patch
Tail10(x) == [i \in 1 .. 10 |-> x]

elevation == <<0>> \o Tail10(60) \o <<0>>

az_min == <<134>> \o Tail10(162) \o <<204>>

az_max == <<154>> \o Tail10(198) \o <<224>>

begin_LST == <<17>> \o Tail10(22) \o <<2>>

end_LST == <<22>> \o Tail10(2) \o <<6>>

\* numpy-free indexing of a python list: IndexError past the end
InList(list, n) == n >= 0 /\ n < Len(list)

Item(list, n) == list[n + 1]

\* float(ephem.hours(h)) / (2 * np.pi), times the length of the sidereal day
HoursTicks(h) == (h * SidDayTicks) \div 24

\* the sidereal time of the site at date 0
LstAtDateZero == 5

\* float(self.telescope_location.sidereal_time()) / (2 * np.pi), in ticks
sidereal_time(d) == (d + LstAtDateZero) % SidDayTicks

\* the MJD of date 0 (date_to_mjd doctest: 15019.5 days)
MjdAtDateZero == 7

\* date_to_greg: str(date.datetime()).split('.')[0] drops the fraction of
\* the second; the Gregorian string is that whole second
date_to_greg(d) == d \div TicksPerSecond

\* greg_to_mjd: calendar day plus fraction of day of a whole second
greg_to_mjd(g) == g * TicksPerSecond + MjdAtDateZero

date_to_mjd(d) == greg_to_mjd(date_to_greg(d))

\* telescope_location.radec_of(az, el) at date d (ephem): a sky position
\* that turns with the sidereal time; never the zeros the arrays start with
radec_of(az, el, d) ==
    <<1 + ((((sidereal_time(d) * 360) \div SidDayTicks) + az) % 360), el - 90>>


\* np.zeros(n); np.ones(n) * x
Zeros(n) == [i \in Range(n) |-> 0]

Filled(n, x) == [i \in Range(n) |-> x]

\* ephem.second / sampling_freq
SamplePeriod(sampling_freq) == TicksPerSecond \div sampling_freq

\* a sweep that keeps its direction whatever the azimuth
TurnNever(running_az, upper_az, lower_az, pb_az_dir) == pb_az_dir

\* a sweep that also turns back on a sample equal to a bound
TurnOnBound(running_az, upper_az, lower_az, pb_az_dir) ==
    IF running_az >= upper_az THEN 0 - 1
    ELSE IF running_az <= lower_az THEN 1
    ELSE pb_az_dir

\* lines 265-268: the direction after the test of the running azimuth
Turn(running_az, upper_az, lower_az, pb_az_dir) ==
    IF running_az > upper_az THEN 0 - 1
    ELSE IF running_az < lower_az THEN 1
    ELSE pb_az_dir

\* az_speed * pb_az_dir / sampling_freq
AzStep(k, pb_az_dir) == (k.az_speed * pb_az_dir) \div k.sampling_freq

\* lines 255-277: the python loop from sample t on.  st holds the arrays,
\* running_az, pb_az_dir and the clock; k the values the loop only reads.
RECURSIVE PythonLoop(_, _, _)
PythonLoop(st, t, k) ==
    IF t >= k.num_pts THEN st
    ELSE LET radec == radec_of(st.running_az, k.el, st.date)
             dir == Turn(st.running_az, k.upper_az, k.lower_az, st.pb_az_dir)
         IN  PythonLoop(
                 [pb_az_array |-> [st.pb_az_array EXCEPT ![t] = st.running_az],
                  pb_ra_array |-> [st.pb_ra_array EXCEPT ![t] = radec[1]],
                  pb_dec_array |-> [st.pb_dec_array EXCEPT ![t] = radec[2]],
                  pb_mjd_array |-> [st.pb_mjd_array EXCEPT ![t] =
                                       st.pb_mjd_array[t - 1]
                                         + SamplePeriod(k.sampling_freq)],
                  pb_az_dir |-> dir,
                  running_az |-> st.running_az + AzStep(k, dir),
                  date |-> st.date + SamplePeriod(k.sampling_freq)],
                 t + 1, k)

\* a loop that fills the arrays and never changes direction
RECURSIVE CLoopNoTurn(_, _, _)
CLoopNoTurn(st, t, k) ==
    IF t >= k.num_pts THEN st
    ELSE CLoopNoTurn(
             [st EXCEPT !.pb_az_array = [@ EXCEPT ![t] = st.running_az],
                        !.pb_mjd_array = [@ EXCEPT ![t] =
                            st.pb_mjd_array[t - 1]
                              + SamplePeriod(k.sampling_freq)],
                        !.running_az = st.running_az
                                         + AzStep(k, st.pb_az_dir)],
             t + 1, k)

\* lines 280-314: the C loop; it fills the azimuths and the times only, and
\* works on its own copies of the scalars
RECURSIVE CLoop(_, _, _)
CLoop(st, t, k) ==
    IF t >= k.num_pts THEN st
    ELSE LET dir == Turn(st.running_az, k.upper_az, k.lower_az, st.pb_az_dir)
         IN  CLoop(
                 [st EXCEPT !.pb_az_array = [@ EXCEPT ![t] = st.running_az],
                            !.pb_mjd_array = [@ EXCEPT ![t] =
                                st.pb_mjd_array[t - 1]
                                  + SamplePeriod(k.sampling_freq)],
                            !.pb_az_dir = dir,
                            !.running_az = st.running_az + AzStep(k, dir)],
                 t + 1, k)

\* scanning_strategy_f.run_one_scan_f: the azimuths and the times of the
\* reference loop, written into the two arrays it is given
run_one_scan_f(st, k) ==
    LET r == CLoop(st, 1, k)
    IN  [st EXCEPT !.pb_az_array = r.pb_az_array,
                   !.pb_mjd_array = r.pb_mjd_array]

\* lines 254-321: if / elif / elif on self.language, without an else
ScanKernel(language, st, k) ==
    IF language = "python" THEN PythonLoop(st, 1, k)
    ELSE IF language = "C"
         THEN LET r == CLoop(st, 1, k)
              IN  [st EXCEPT !.pb_az_array = r.pb_az_array,
                             !.pb_mjd_array = r.pb_mjd_array]
    ELSE IF language = "fortran" THEN run_one_scan_f(st, k)
    ELSE st

ScanKernelRun(language) ==
    IF language \in {"python", "C", "fortran"} THEN language ELSE "none"

EmptyDict == <<>>


\* lines 199-228: what run_one_scan computes before it allocates, for the
\* slot scan_number of an instance at date d
ScanGeometry(self, d, scan_number) ==
    LET el == Item(elevation, scan_number)
        az_mean == (Item(az_min, scan_number) + Item(az_max, scan_number))
                      \div 2
        az_throw == (Item(az_max, scan_number) - Item(az_min, scan_number))
                       * Sec(el)
        LST_now == sidereal_time(d)
        end == HoursTicks(Item(end_LST, scan_number))
        begin0 == HoursTicks(Item(begin_LST, scan_number))
        begin == IF begin0 > end THEN begin0 - SidDayTicks ELSE begin0
    IN  [el |-> el,
         az_mean |-> az_mean,
         upper_az |-> az_mean + (az_throw \div 2),
         lower_az |-> az_mean - (az_throw \div 2),
         az_speed |-> self.sky_speed * Sec(el),
         sampling_freq |-> self.sampling_freq,
         date |-> d - (LST_now - begin),
         num_pts |-> ((end - begin) * self.sampling_freq)
                        \div TicksPerSecond]

\* lines 232-252: the arrays, the first sample, the update before the loop
ScanStart(k) ==
    [pb_az_array |-> [Zeros(k.num_pts) EXCEPT ![0] = k.az_mean],
     pb_mjd_array |-> [Zeros(k.num_pts) EXCEPT ![0] = date_to_mjd(k.date)],
     pb_ra_array |-> Zeros(k.num_pts),
     pb_dec_array |-> Zeros(k.num_pts),
     pb_az_dir |-> 1,
     running_az |-> k.az_mean + AzStep(k, 1),
     date |-> k.date + SamplePeriod(k.sampling_freq)]

\* lines 248, 327-340: the dictionary of the scan
ScanFile(self, scan_number, k, st) ==
    [firstmjd |-> st.pb_mjd_array[0] - time_padding,
     nces |-> self.nces,
     CES |-> scan_number,
     sample_rate |-> k.sampling_freq,
     sky_speed |-> self.sky_speed,
     lastmjd |-> st.pb_mjd_array[k.num_pts - 1] + time_padding,
     azimuth |-> [i \in Range(k.num_pts) |-> DegToRad(st.pb_az_array[i])],
     elevation |-> [i \in Range(k.num_pts) |->
                      DegToRad(Filled(k.num_pts, k.el)[i])],
     clock_utc |-> st.pb_mjd_array,
     RA |-> st.pb_ra_array,
     Dec |-> st.pb_dec_array,
     nts |-> Len0(st.pb_mjd_array)]

\* run_one_scan as a function of the instance, its clock and the slot: the
\* exception raised, the clock and the dictionary afterwards, the arrays
\* allocated and the kernel that ran
RunOneScan(self, d, scan_number) ==
    IF ~InList(elevation, scan_number)
    THEN [error |-> "IndexError", date |-> d, scan_file |-> EmptyDict,
          arrays |-> 0, kernel |-> "none"]
    ELSE LET k == ScanGeometry(self, d, scan_number)
             st == ScanKernel(self.language, ScanStart(k), k)
         IN  [error |-> "none",
              date |-> st.date
                         + k.num_pts * SamplePeriod(k.sampling_freq)
                         + OneDay,
              scan_file |-> ScanFile(self, scan_number, k, st),
              arrays |-> 5,
              kernel |-> ScanKernelRun(self.language)]

\* a loop that stops after its first CES
RunLoopOnce(self, d, files, arrays, CES_position) ==
    LET r == RunOneScan(self, d, CES_position)
    IN  [error |-> r.error, date |-> r.date,
         scan_files |-> Append(files, r.scan_file),
         arrays |-> arrays + r.arrays]

\* lines 389-397: the loop of run() from CES_position on
RECURSIVE RunLoop(_, _, _, _, _)
RunLoop(self, d, files, arrays, CES_position) ==
    IF CES_position >= self.nces
    THEN [error |-> "none", date |-> d, scan_files |-> files,
          arrays |-> arrays]
    ELSE LET r == RunOneScan(self, d, CES_position)
         IN  IF r.error # "none"
             THEN [error |-> r.error, date |-> r.date,
                   scan_files |-> Append(files, EmptyDict),
                   arrays |-> arrays]
             ELSE RunLoop(self, r.date, Append(files, r.scan_file),
                          arrays + r.arrays, CES_position + 1)


\* how many calls the caller makes on the scanning strategy
MaxScanCalls == 3

ScanNames == {"deep_patch", "Deep_Patch", "toto"}

ScanLanguages == {"python", "C", "fortran", "julia"}

NcesValues == {2, 13}

SamplingFreqs == {1, 2}

SkySpeeds == {10, 48}

\* 'YYYY/M/D HH:MM:SS', a whole second
StartDates == {30}

\* ephem.Observer() starts its clock at the time it is created
NowDates == {3}

\* the same test, blind to the case of the name
KnownStrategyAnyCase(name_strategy) ==
    name_strategy \in {"deep_patch", "Deep_Patch"}

\* line 148
KnownStrategy(name_strategy) == name_strategy = "deep_patch"

ScanCall(op, name_strategy, language, scan_number) ==
    [op |-> op, name_strategy |-> name_strategy, language |-> language,
     scan_number |-> scan_number, scan_before |-> scan,
     alloc_before |-> sc_alloc, date_before |-> date,
     files_before |-> scan_files]

\* ScanningStrategy(...): __init__ stores its arguments, builds the site and
\* calls define_boundary_of_scan, whose exception leaves the caller without
\* the new instance (the name it assigns to keeps what it held)
ScanningStrategy(nces, start_date, name_strategy, sampling_freq, sky_speed, language, now) ==
    /\ sc_ncalls < MaxScanCalls
    /\ sc_ncalls' = sc_ncalls + 1
    /\ sc_call' = ScanCall("ScanningStrategy", name_strategy, language, 0)
    /\ IF KnownStrategy(name_strategy)
       THEN /\ scan' = [bound |-> TRUE, nces |-> nces,
                        start_date |-> start_date,
                        name_strategy |-> name_strategy,
                        sampling_freq |-> sampling_freq,
                        sky_speed |-> sky_speed, language |-> language,
                        allowed_scanning_strategies |-> <<"deep_patch">>,
                        has_boundary |-> TRUE]
            /\ date' = now
            /\ scan_files' = <<>>
            /\ sc_error' = "none"
       ELSE /\ sc_error' = "ValueError"
            /\ UNCHANGED <<scan, date, scan_files>>
    /\ UNCHANGED <<scan_file, sc_alloc>>

\* scan.run_one_scan(scan_file, scan_number) with a dictionary of the caller
run_one_scan(scan_number) ==
    /\ scan.bound
    /\ sc_ncalls < MaxScanCalls
    /\ sc_ncalls' = sc_ncalls + 1
    /\ sc_call' = ScanCall("run_one_scan", scan.name_strategy, scan.language,
                           scan_number)
    /\ LET r == RunOneScan(scan, date, scan_number)
       IN  /\ date' = r.date
           /\ scan_file' = r.scan_file
           /\ sc_alloc' = sc_alloc + r.arrays
           /\ sc_error' = r.error
    /\ UNCHANGED <<scan, scan_files>>

\* the date run() starts from whatever the clock shows
ResetDateKept(self, d) == d

\* line 388: self.telescope_location.date = self.start_date
ResetDate(self, d) == self.start_date

\* scan.run()
run ==
    /\ scan.bound
    /\ sc_ncalls < MaxScanCalls
    /\ sc_ncalls' = sc_ncalls + 1
    /\ sc_call' = ScanCall("run", scan.name_strategy, scan.language, 0)
    /\ LET r == RunLoop(scan, ResetDate(scan, date), <<>>, 0, 0)
       IN  /\ date' = r.date
           /\ scan_files' = r.scan_files
           /\ sc_alloc' = sc_alloc + r.arrays
           /\ sc_error' = r.error
    /\ UNCHANGED <<scan, scan_file>>

outsideScan == <<xtalkVars, workerVars, beamVars, detVars, convVars, fpVars>>

CallScanningStrategy ==
    \E nces \in NcesValues, start_date \in StartDates,
       name_strategy \in ScanNames, sampling_freq \in SamplingFreqs,
       sky_speed \in SkySpeeds, language \in ScanLanguages,
       now \in NowDates :
        /\ ScanningStrategy(nces, start_date, name_strategy, sampling_freq,
                            sky_speed, language, now)
        /\ UNCHANGED outsideScan

CallRunOneScan ==
    \E scan_number \in {0, 1, Len(elevation) - 1, Len(elevation)} :
        /\ run_one_scan(scan_number)
        /\ UNCHANGED outsideScan

CallRun ==
    /\ run
    /\ UNCHANGED outsideScan

ScanNext == CallScanningStrategy \/ CallRunOneScan \/ CallRun

ScanInit ==
    /\ XtalkIdle
    /\ BeamIdle
    /\ DetIdle
    /\ ScanIdle
    /\ ConvIdle
    /\ FpIdle

SpecScan == ScanInit /\ [][ScanNext]_vars

\* C9: a ScanningStrategy built with a name other than exactly 'deep_patch'
\* raises inside the constructor: the caller gets no instance from the call
\* (what it held before is what it holds after), the call allocates no scan
\* array, and run() and run_one_scan() are only ever called on an instance
\* whose strategy is 'deep_patch' and whose boundaries are defined.
C9_UnknownStrategyRaisesInConstructor ==
    /\ scan.bound => (scan.name_strategy = "deep_patch" /\ scan.has_boundary)
    /\ (sc_call.op = "ScanningStrategy"
        /\ sc_call.name_strategy # "deep_patch") =>
            /\ sc_error = "ValueError"
            /\ scan = sc_call.scan_before
            /\ sc_alloc = sc_call.alloc_before
    /\ sc_call.op \in {"run", "run_one_scan"} =>
            /\ sc_call.scan_before.bound
            /\ sc_call.name_strategy = "deep_patch"
    /\ ~scan.bound =>
            (sc_alloc = 0 /\ scan_files = <<>> /\ scan_file = EmptyDict)

\* the name differs from 'deep_patch' by its case only, the call raised and
\* the caller holds no instance
C9_Witness ==
    /\ sc_call.op = "ScanningStrategy"
    /\ sc_call.name_strategy = "Deep_Patch"
    /\ sc_error = "ValueError"
    /\ ~scan.bound


----------------------------------------------------------------------------
(* Properties of one scan.                                                 *)

\* the last call was run_one_scan and it raised nothing
ScanReturned ==
    /\ sc_call.op = "run_one_scan"
    /\ sc_error = "none"

Backends == {"python", "C", "fortran"}

\* the dictionary the same call gives when the instance computes with
\* language other
ScanFileUnder(other, d, scan_number) ==
    RunOneScan([scan EXCEPT !.language = other], d, scan_number).scan_file

SameTrajectory(f, g) ==
    /\ f.azimuth = g.azimuth
    /\ f.clock_utc = g.clock_utc
    /\ f.firstmjd = g.firstmjd
    /\ f.lastmjd = g.lastmjd

\* C11: for one call of run_one_scan from the same slot, sample rate, sky
\* speed and date at call entry, the python backend and the C backend give
\* the same azimuth and clock-utc arrays and the same firstmjd and lastmjd;
\* so does the first CES of run(), which starts from start_date.
C11_PythonAndCAgree ==
    /\ (ScanReturned /\ scan.language \in {"python", "C"}) =>
           \A other \in {"python", "C"} :
               SameTrajectory(scan_file,
                              ScanFileUnder(other, sc_call.date_before,
                                            sc_call.scan_number))
    /\ (sc_call.op = "run" /\ scan.language \in {"python", "C"}) =>
           \A other \in {"python", "C"} :
               SameTrajectory(scan_files[1],
                              ScanFileUnder(other, scan.start_date, 0))

\* a scan of the C backend whose sweep turned back
C11_Witness ==
    /\ ScanReturned
    /\ scan.language = "C"
    /\ \E t \in 1 .. (scan_file.nts - 2) :
           /\ scan_file.azimuth[t] > scan_file.azimuth[t - 1]
           /\ scan_file.azimuth[t + 1] < scan_file.azimuth[t]


\* the dictionaries of the last call: the caller's one after run_one_scan,
\* scan0, scan1, ... after run(), each with its slot; none if the instance
\* computes with no backend
LastScans ==
    IF scan.language \notin Backends THEN {}
    ELSE IF ScanReturned THEN {<<sc_call.scan_number, scan_file>>}
    ELSE IF sc_call.op = "run"
         THEN {<<i - 1, scan_files[i]>> : i \in
                  {j \in DOMAIN scan_files : scan_files[j] # EmptyDict}}
    ELSE {}

\* the bounds and the step of the sweep of a slot (they do not depend on
\* the date)
Sweep(scan_number) == ScanGeometry(scan, 0, scan_number)

\* C12: every azimuth sample of a synthesized CES lies within
\* [lower_az - step, upper_az + step], with step the azimuth covered in one
\* sample, at every sample index and for every step size, larger than the
\* throw included.
C12_AzimuthWithinBoundsPlusStep ==
    \A sf \in LastScans :
        LET k == Sweep(sf[1])
            step == AzStep(k, 1)
        IN  /\ step > 0
            /\ \A t \in Range(sf[2].nts) :
                   /\ sf[2].azimuth[t] >= DegToRad(k.lower_az - step)
                   /\ sf[2].azimuth[t] <= DegToRad(k.upper_az + step)

\* a scan whose step is larger than its whole throw and that has samples
\* beyond both bounds
C12_Witness ==
    \E sf \in LastScans :
        LET k == Sweep(sf[1])
        IN  /\ AzStep(k, 1) > k.upper_az - k.lower_az
            /\ \E t \in Range(sf[2].nts) :
                   sf[2].azimuth[t] > DegToRad(k.upper_az)
            /\ \E t \in Range(sf[2].nts) :
                   sf[2].azimuth[t] < DegToRad(k.lower_az)


\* the samples the window of a slot holds: its length in sidereal time,
\* carried over the end of the sidereal day when it wraps, times the
\* sampling frequency
WindowSamples(scan_number) ==
    LET b == Item(begin_LST, scan_number)
        e == Item(end_LST, scan_number)
        hours == IF b > e THEN e + 24 - b ELSE e - b
    IN  (HoursTicks(hours) * scan.sampling_freq) \div TicksPerSecond

\* C16: firstmjd is the first timestamp minus 10 seconds, lastmjd the last
\* timestamp plus 10 seconds, and the pad adds no samples: lastmjd - firstmjd
\* is (nts - 1) sample periods plus 20 seconds, with nts the number of
\* samples of the window of the slot.
C16_PadIsMetadataOnly ==
    \A sf \in LastScans :
        LET f == sf[2]
        IN  /\ f.firstmjd = f.clock_utc[0] - 10 * TicksPerSecond
            /\ f.lastmjd = f.clock_utc[f.nts - 1] + 10 * TicksPerSecond
            /\ f.lastmjd - f.firstmjd =
                   (f.nts - 1) * SamplePeriod(scan.sampling_freq)
                     + 20 * TicksPerSecond
            /\ f.nts = WindowSamples(sf[1])
            /\ Len0(f.azimuth) = f.nts

\* a scan of the last slot, two samples a second, whose window does not wrap
C16_Witness ==
    \E sf \in LastScans :
        /\ sf[1] = Len(elevation) - 1
        /\ scan.sampling_freq = 2
        /\ sf[2].nts = 8
        /\ sf[2].lastmjd > sf[2].firstmjd

\* C17: after run_one_scan returns, the clock of the instance shows the time
\* of the first sample of the CES plus the duration of the CES, num_pts
\* sample periods, plus one day: the duration is counted once.
C17_CursorAdvancesByDurationPlusDay ==
    (ScanReturned /\ scan.language \in Backends) =>
        LET k == ScanGeometry(scan, sc_call.date_before, sc_call.scan_number)
        IN  date = k.date + k.num_pts * SamplePeriod(k.sampling_freq)
                     + OneDay

\* C18: within one run() of two CESes or more, under every backend, no CES
\* starts before the data window of the CES before it closes: firstmjd of
\* scan{i+1} is later than lastmjd of scan{i}.
C18_NoOverlapWithinRun ==
    (sc_call.op = "run" /\ scan.language \in Backends) =>
        \A i \in 1 .. (Len(scan_files) - 1) :
            (scan_files[i] # EmptyDict /\ scan_files[i + 1] # EmptyDict) =>
                scan_files[i + 1].firstmjd > scan_files[i].lastmjd

\* the last call was run(), on an instance that run() had already been
\* called on
RunAgain ==
    /\ sc_call.op = "run"
    /\ sc_call.scan_before = scan
    /\ sc_call.files_before # <<>>

\* C19: run() starts from start_date whatever the clock shows: called again
\* on the same instance it gives, for every CES, the same azimuth and
\* clock-utc arrays and the same firstmjd and lastmjd as the time before.
C19_RunRepeats ==
    RunAgain =>
        /\ Len(scan_files) = Len(sc_call.files_before)
        /\ \A i \in DOMAIN scan_files :
               IF scan_files[i] = EmptyDict
               THEN sc_call.files_before[i] = EmptyDict
               ELSE /\ sc_call.files_before[i] # EmptyDict
                    /\ SameTrajectory(scan_files[i], sc_call.files_before[i])

\* run() called again with the clock where the run before left it, later
\* than start_date
C19_Witness ==
    /\ RunAgain
    /\ sc_call.date_before > scan.start_date + OneDay
    /\ scan_files[1] # EmptyDict
    /\ scan_files[1].firstmjd = sc_call.files_before[1].firstmjd

\* C20: the sweep turns back on the recorded position, before the
\* increment: from sample 1 on, a sample above upper_az is followed by one a
\* step lower, a sample below lower_az by one a step higher, any other
\* sample, one equal to a bound included, by a step in the direction of the
\* step before; two samples in a row are never beyond the same bound.
C20_ReversalAfterOvershoot ==
    \A sf \in LastScans :
        LET k == Sweep(sf[1])
            az == sf[2].azimuth
            upper == DegToRad(k.upper_az)
            lower == DegToRad(k.lower_az)
            step == DegToRad(AzStep(k, 1))
        IN  \A t \in 1 .. (sf[2].nts - 2) :
                /\ az[t] > upper => az[t + 1] = az[t] - step
                /\ az[t] < lower => az[t + 1] = az[t] + step
                /\ (az[t] <= upper /\ az[t] >= lower) =>
                       az[t + 1] - az[t] = az[t] - az[t - 1]
                /\ ~(az[t] > upper /\ az[t + 1] > upper)
                /\ ~(az[t] < lower /\ az[t + 1] < lower)

\* a sample equal to the upper bound, the next one beyond it, the one after
\* back on the bound
C20_Witness ==
    \E sf \in LastScans :
        LET az == sf[2].azimuth
            upper == DegToRad(Sweep(sf[1]).upper_az)
        IN  \E t \in 1 .. (sf[2].nts - 3) :
                /\ az[t] = upper
                /\ az[t + 1] > upper
                /\ az[t + 2] = upper

\* the degrees of a value DegToRad gave
RadToDeg(x) == x \div 2

\* C21: under the python backend every sample of a CES, the first one
\* (t = 0) included, has its RA and Dec computed from its azimuth and
\* elevation at the time of the sample; no sample keeps the zeros the arrays
\* are allocated with.
C21_EverySampleHasRaDec ==
    /\ (ScanReturned /\ scan.language = "python") =>
           LET k == ScanGeometry(scan, sc_call.date_before,
                                 sc_call.scan_number)
           IN  \A t \in Range(scan_file.nts) :
                   <<scan_file.RA[t], scan_file.Dec[t]>> =
                       radec_of(RadToDeg(scan_file.azimuth[t]),
                                RadToDeg(scan_file.elevation[t]),
                                k.date + t * SamplePeriod(k.sampling_freq))
    /\ scan.language = "python" =>
           \A sf \in LastScans : \A t \in Range(sf[2].nts) :
               <<sf[2].RA[t], sf[2].Dec[t]>> # <<0, 0>>

\* C22: at the start of every CES the reset moves the clock backward, never
\* forward: for every clock value at call entry and every slot, the clock
\* after the reset of lines 218-219 is at most the clock before it.
C22_ResetMovesBackward ==
    ScanReturned =>
        ScanGeometry(scan, sc_call.date_before, sc_call.scan_number).date
            <= sc_call.date_before

\* the clock when run() enters the synthesis of CES i: start_date for CES 0,
\* what the CES before left for the others.  CursorFrom follows the loop of
\* run() from CES j, entered with the clock at d, up to CES i.
RECURSIVE CursorFrom(_, _, _)
CursorFrom(d, j, i) ==
    IF j >= i THEN d
    ELSE LET r == RunOneScan(scan, d, j)
         IN  IF r.error # "none" THEN r.date
             ELSE CursorFrom(r.date, j + 1, i)

CursorBefore(i) == CursorFrom(ResetDate(scan, date), 0, i)

\* C23: run() goes Idle -> Synthesizing CES 0 -> ... -> Synthesizing CES
\* nces-1 -> Done: the CESes are synthesized in increasing order, each
\* exactly once and each from the clock the one before left, and on
\* completion every scan{i}, 0 <= i < nces, holds a record with CES = i,
\* nces = nces and azimuth, elevation, RA, Dec and clock-utc arrays all of
\* length nts.
C23_RunSynthesizesEachCESOnce ==
    sc_call.op = "run" =>
        /\ \A i \in DOMAIN scan_files :
               scan_files[i] # EmptyDict =>
                   /\ scan_files[i].CES = i - 1
                   /\ LET d == CursorBefore(i - 1)
                      IN  scan_files[i] =
                              RunOneScan(scan, d, i - 1).scan_file
        /\ sc_error = "none" =>
               /\ Len(scan_files) = scan.nces
               /\ sc_alloc = sc_call.alloc_before + 5 * scan.nces
               /\ date = CursorBefore(scan.nces)
               /\ \A i \in 0 .. (scan.nces - 1) :
                      LET f == scan_files[i + 1]
                      IN  /\ f # EmptyDict
                          /\ f.CES = i
                          /\ f.nces = scan.nces
                          /\ f.nts = WindowSamples(i)
                          /\ Len0(f.azimuth) = f.nts
                          /\ Len0(f.elevation) = f.nts
                          /\ Len0(f.RA) = f.nts
                          /\ Len0(f.Dec) = f.nts
                          /\ Len0(f.clock_utc) = f.nts

\* a run() of two CESes that completed, with windows of different lengths
C23_Witness ==
    /\ sc_call.op = "run"
    /\ sc_error = "none"
    /\ scan.nces = 2
    /\ Len(scan_files) = 2
    /\ scan_files[2].CES = 1
    /\ scan_files[2].nts # scan_files[1].nts

\* what run() leaves when the instance computes with language other
RunUnder(other) ==
    RunLoop([scan EXCEPT !.language = other], ResetDate(scan, date), <<>>,
            0, 0)

\* C28: the clock when run_one_scan returns is the same under the python, C
\* and fortran backends for the same inputs, so that in a run() of two CESes
\* or more every later CES starts at the same time (same firstmjd and
\* clock-utc) whichever backend was selected.
C28_CursorSameUnderEveryBackend ==
    /\ (ScanReturned /\ scan.language \in Backends) =>
           \A other \in Backends :
               RunOneScan([scan EXCEPT !.language = other],
                          sc_call.date_before, sc_call.scan_number).date
                   = date
    /\ (sc_call.op = "run" /\ scan.language \in Backends) =>
           \A other \in Backends :
               LET files == RunUnder(other).scan_files
               IN  \A i \in DOMAIN scan_files :
                       scan_files[i] # EmptyDict =>
                           /\ files[i].firstmjd = scan_files[i].firstmjd
                           /\ files[i].clock_utc = scan_files[i].clock_utc

\* C29: run() is all-or-nothing with respect to the requested CES count:
\* when nces exceeds the number of slots of the strategy (12 for deep_patch)
\* the failure occurs before any CES is synthesized and before the clock is
\* changed; run() never leaves scan0..scan11 populated, an empty scan12 and
\* an advanced clock behind an error.
C29_RunAllOrNothing ==
    (sc_call.op = "run" /\ scan.nces > Len(elevation)) =>
        /\ sc_error # "none"
        /\ scan_files = sc_call.files_before
        /\ date = sc_call.date_before
        /\ sc_alloc = sc_call.alloc_before

----------------------------------------------------------------------------
(* The date conversions on Gregorian strings (greg_to_mjd, mjd_to_greg).   *)
(*                                                                         *)
(* A string is a sequence of one-character strings.  An MJD is a real      *)
(* number of days; the model keeps it exact as <<days, seconds>>, whole     *)
(* days and seconds of the day, since the strings have a resolution of one *)
(* second.  The routines of slalib are modelled by their algorithms.       *)
(***************************************************************************)
DigitChars == <<"0", "1", "2", "3", "4", "5", "6", "7", "8", "9">>

\* int(c) for a character of a number; a blank counts for nothing
DigitOf(c) ==
    IF c = " " THEN 0
    ELSE CHOOSE n \in 0 .. 9 : DigitChars[n + 1] = c

\* int(greg[a:b])
RECURSIVE ParseInt(_)
ParseInt(chars) ==
    IF chars = <<>> THEN 0
    ELSE 10 * ParseInt(SubSeq(chars, 1, Len(chars) - 1))
           + DigitOf(chars[Len(chars)])

\* the decimal digits of n >= 0
RECURSIVE Decimal(_)
Decimal(n) ==
    IF n < 10 THEN <<DigitChars[n + 1]>>
    ELSE Decimal(n \div 10) \o <<DigitChars[(n % 10) + 1]>>

\* '{:wd}'.format(n): right justified with blanks, longer when n needs it
RECURSIVE FormatD(_, _)
FormatD(n, width) ==
    IF Len(Decimal(n)) >= width THEN Decimal(n)
    ELSE <<" ">> \o FormatD(n, width - 1)

\* the string left as it was formatted
KeepBlanks(chars) == chars

\* line 762: s.replace(' ', '0')
ZeroBlanks(chars) ==
    [i \in DOMAIN chars |-> IF chars[i] = " " THEN "0" ELSE chars[i]]

SecondsPerDay == 86400

\* slalib.sla_dtf2d(hour, minute, second): the time as a part of the day,
\* computed whatever the fields, and the status of the first bad field
sla_dtf2d(hour, minute, second) ==
    <<60 * (60 * hour + minute) + second,
      IF second < 0 \/ second >= 60 THEN 3
      ELSE IF minute < 0 \/ minute > 59 THEN 2
      ELSE IF hour < 0 \/ hour > 23 THEN 1
      ELSE 0>>

IsLeap(year) ==
    year % 4 = 0 /\ (year % 100 # 0 \/ year % 400 = 0)

DaysIn(year, month) ==
    IF month = 2 THEN (IF IsLeap(year) THEN 29 ELSE 28)
    ELSE IF month \in {4, 6, 9, 11} THEN 30
    ELSE 31

\* the day number slalib.sla_cldj computes for a month in 1 .. 12
Cldj(iy, im, id) ==
    LET y == iy - ((12 - im) \div 10)
    IN  ((1461 * (y + 4712)) \div 4)
          + ((306 * ((im + 9) % 12) + 5) \div 10)
          - ((3 * ((y + 4900) \div 100)) \div 4)
          + id - 2399904

\* slalib.sla_cldj(year, month, day): with a bad year or month it returns
\* without a day number (unset stands for what the caller then reads), with
\* a bad day it returns the day number all the same
sla_cldj(iy, im, id, unset) ==
    IF iy < 0 - 4699 THEN <<unset, 1>>
    ELSE IF im < 1 \/ im > 12 THEN <<unset, 2>>
    ELSE <<Cldj(iy, im, id), IF id < 1 \/ id > DaysIn(iy, im) THEN 3 ELSE 0>>

\* slalib.sla_djcl(mjd): year, month, day, fraction of the day, bad date
sla_djcl(mjd) ==
    IF \/ mjd[1] < 0 - 2395520
       \/ (mjd[1] = 0 - 2395520 /\ mjd[2] = 0)
       \/ mjd[1] >= 1000000000
    THEN <<0, 0, 0, 0, 0 - 1>>
    ELSE LET jd == mjd[1] + 2400001
             n4 == 4 * (jd + (((((6 * ((4 * jd - 17918) \div 146097))
                                  \div 4) + 1) \div 2) - 37))
             nd10 == 10 * (((n4 - 237) % 1461) \div 4) + 5
         IN  <<(n4 \div 1461) - 4712,
               (((nd10 \div 306) + 2) % 12) + 1,
               ((nd10 % 306) \div 10) + 1,
               mjd[2],
               0>>

\* slalib.sla_dd2tf(2, fracday): hour, minute, second of a whole second
sla_dd2tf(fracday) ==
    <<fracday \div 3600, (fracday % 3600) \div 60, fracday % 60>>


\* mjd += fracday, for a day number and seconds of time
AddFracday(djm, seconds) ==
    <<djm + (seconds \div SecondsPerDay), seconds % SecondsPerDay>>

\* lines 719-730: greg_to_mjd on the string; both statuses are received and
\* neither is looked at
greg_to_mjd_string(greg, unset) ==
    LET year == ParseInt(SubSeq(greg, 1, 4))
        month == ParseInt(SubSeq(greg, 5, 6))
        day == ParseInt(SubSeq(greg, 7, 8))
        hour == ParseInt(SubSeq(greg, 10, 11))
        minute == ParseInt(SubSeq(greg, 12, 13))
        second == ParseInt(SubSeq(greg, 14, 15))
        time == sla_dtf2d(hour, minute, second)
        cal == sla_cldj(year, month, day, unset)
    IN  [out |-> AddFracday(cal[1], time[1]),
         error |-> "none",
         status |-> <<time[2], cal[2]>>]

\* line 756: raise ValueError(BadMJD) names BadMJD, which nothing defines:
\* evaluating the argument raises NameError before ValueError is built
RaiseBadMJD == "NameError"

\* lines 753-764: mjd_to_greg
mjd_to_greg(mjd) ==
    LET cal == sla_djcl(mjd)
        tf == sla_dd2tf(cal[4])
    IN  IF cal[5] # 0
        THEN [out |-> <<>>, error |-> RaiseBadMJD]
        ELSE [out |-> ZeroBlanks(FormatD(cal[1], 4) \o FormatD(cal[2], 2)
                                   \o FormatD(cal[3], 2) \o <<"_">>
                                   \o FormatD(tf[1], 2) \o FormatD(tf[2], 2)
                                   \o FormatD(tf[3], 2)),
              error |-> "none"]

\* the strings the caller passes: YYYYMMDD_HHMMSS with the fields below
Pad0(n, width) ==
    [i \in 1 .. width |-> DigitChars[((n \div Pow(10, width - i)) % 10) + 1]]

GregString(f) ==
    Pad0(f[1], 4) \o Pad0(f[2], 2) \o Pad0(f[3], 2) \o <<"_">>
      \o Pad0(f[4], 2) \o Pad0(f[5], 2) \o Pad0(f[6], 2)

GregFields ==
    {999, 2000, 2013} \X {1, 2, 12, 13} \X {1, 28, 29, 31, 32}
      \X {0, 23, 24} \X {0, 59, 60} \X {0, 59, 60}

\* the MJDs the caller passes to mjd_to_greg: beyond both ends of what
\* sla_djcl accepts, and the dates of the doctests
DirectMjds ==
    {<<0 - 2395521, 0>>, <<0 - 2395520, 0>>, <<1000000000, 0>>,
     <<15019, 43200>>, <<47468, 0>>}

\* what greg_to_mjd reads for the day number sla_cldj did not set
UnsetDjm == {0, 51544}

outsideConv == <<xtalkVars, workerVars, beamVars, detVars, scanVars, fpVars>>

\* greg_to_mjd of the string the caller holds
CallGregToMjd ==
    /\ cv_call.fn = "none"
    /\ Len(cv_call.arg) = 15
    /\ \E unset \in UnsetDjm :
           LET r == greg_to_mjd_string(cv_call.arg, unset)
           IN  cv_call' = [fn |-> "greg_to_mjd", arg |-> cv_call.arg,
                           of |-> <<>>, out |-> r.out, error |-> r.error,
                           status |-> r.status]
    /\ UNCHANGED outsideConv

\* mjd_to_greg of the MJD the caller holds, or of what greg_to_mjd just
\* returned
CallMjdToGreg ==
    /\ \/ cv_call.fn = "none" /\ Len(cv_call.arg) = 2
       \/ cv_call.fn = "greg_to_mjd"
    /\ LET mjd == IF cv_call.fn = "none" THEN cv_call.arg ELSE cv_call.out
           r == mjd_to_greg(mjd)
       IN  cv_call' = [fn |-> "mjd_to_greg", arg |-> mjd,
                       of |-> IF cv_call.fn = "none" THEN <<>>
                              ELSE cv_call.arg,
                       out |-> r.out, error |-> r.error,
                       status |-> <<sla_djcl(mjd)[5], 0>>]
    /\ UNCHANGED outsideConv

ConvNext == CallGregToMjd \/ CallMjdToGreg

ConvInit ==
    /\ XtalkIdle
    /\ BeamIdle
    /\ DetIdle
    /\ ScanIdle
    /\ FpIdle
    /\ cv_call \in {[NoConv EXCEPT !.arg = x] :
                       x \in {GregString(f) : f \in GregFields}
                                \cup DirectMjds}

SpecConv == ConvInit /\ [][ConvNext]_vars

\* a calendar date and a time of day that exist
ValidGreg(greg) ==
    LET month == ParseInt(SubSeq(greg, 5, 6))
        day == ParseInt(SubSeq(greg, 7, 8))
    IN  /\ month \in 1 .. 12
        /\ day \in 1 .. DaysIn(ParseInt(SubSeq(greg, 1, 4)), month)
        /\ ParseInt(SubSeq(greg, 10, 11)) \in 0 .. 23
        /\ ParseInt(SubSeq(greg, 12, 13)) \in 0 .. 59
        /\ ParseInt(SubSeq(greg, 14, 15)) \in 0 .. 59

\* C13: for every valid Gregorian string g, YYYYMMDD_HHMMSS to the second,
\* mjd_to_greg(greg_to_mjd(g)) = g.
C13_GregRoundTrip ==
    (cv_call.fn = "mjd_to_greg" /\ cv_call.of # <<>>
     /\ ValidGreg(cv_call.of)) =>
        (cv_call.error = "none" /\ cv_call.out = cv_call.of)

\* the round trip of the last second of 29 February 2000
C13_Witness ==
    /\ cv_call.fn = "mjd_to_greg"
    /\ cv_call.of = GregString(<<2000, 2, 29, 23, 59, 59>>)
    /\ cv_call.out = cv_call.of


\* C14: when sla_djcl reports a bad date for the MJD, mjd_to_greg fails
\* with a ValueError and returns no string.
C14_BadMjdRaisesValueError ==
    (cv_call.fn = "mjd_to_greg" /\ cv_call.status[1] # 0) =>
        (cv_call.error = "ValueError" /\ cv_call.out = <<>>)

\* C15: greg_to_mjd fails whenever sla_dtf2d or sla_cldj returns a status
\* other than zero (month 13, day 32, hour 24, minute 60, ...); it returns
\* no MJD for such a string.
C15_BadFieldsRejected ==
    (cv_call.fn = "greg_to_mjd" /\ cv_call.status # <<0, 0>>) =>
        cv_call.error # "none"


----------------------------------------------------------------------------
(* The focal-plane convolution (convolve_focalplane).                      *)
(*                                                                         *)
(* The sky map is a grid of NRows rings of NCols pixels, numbered ring by  *)
(* ring as healpy numbers its pixels; a pixel is resol_amin wide in both   *)
(* directions.  Angles are whole arcminutes: theta runs from 0 to          *)
(* NRows * resol_amin (the two poles), phi is periodic.  The sine of the   *)
(* colatitude is 1 on the inner rings and 1/2 on the two polar rings.      *)
(* Hit counts and detector numbers are drawn so that nbolos / sum(fp_map)  *)
(* is exact.                                                               *)
(***************************************************************************)
NRows == 4

NCols == 4

\* hp.nside2resol(nside, arcmin=True)
resol_amin == 16

\* focalplane_nhits.shape[0]
npix == NRows * NCols

\* hp.pix2ang(nside, n): the centre of pixel n
pix2ang(n) ==
    <<(n \div NCols) * resol_amin + (resol_amin \div 2),
      (n % NCols) * resol_amin + (resol_amin \div 2)>>

\* hp.ang2pix accepts a colatitude between the poles only
ThetaInRange(theta) == theta >= 0 /\ theta <= NRows * resol_amin

\* hp.ang2pix(nside, theta, phi); the south pole belongs to the last ring
ang2pix(theta, phi) ==
    LET ring == IF theta = NRows * resol_amin THEN NRows - 1
                ELSE theta \div resol_amin
    IN  ring * NCols + ((phi % (NCols * resol_amin)) \div resol_amin)

\* 2 * np.sin(theta_bore)
TwiceSin(theta) ==
    IF theta < resol_amin \/ theta > (NRows - 1) * resol_amin THEN 1 ELSE 2

\* int(fp_radius_amin * 2. / resol_amin)
fp_rad_bins(fp_radius_amin) == (fp_radius_amin * 2) \div resol_amin

\* lines 568-573: the offsets (x_fp, y_fp) kept by fp_map, in the row-major
\* order of the boolean mask
RECURSIVE OffsetsFrom(_, _)
OffsetsFrom(r, k) ==
    IF k >= (2 * r + 1) * (2 * r + 1) THEN <<>>
    ELSE LET x == (k \div (2 * r + 1)) - r
             y == (k % (2 * r + 1)) - r
         IN  (IF x * x + y * y < r * r THEN <<(<<x, y>>)>> ELSE <<>>)
               \o OffsetsFrom(r, k + 1)

fp_map(r) == OffsetsFrom(r, 0)

\* lines 577-582: dRA and dDec of an offset, in arcminutes
Offset(c, fp_radius_amin, r) == (c * fp_radius_amin) \div r

\* lines 589-593: the pixels the offsets of source pixel n fall on, one per
\* offset, not de-duplicated; <<>> stands for the ValueError of hp.ang2pix
pixels_of(n, fp_radius_amin) ==
    LET r == fp_rad_bins(fp_radius_amin)
        fp == fp_map(r)
        bore == pix2ang(n)
        theta == [i \in DOMAIN fp |->
                     bore[1] + Offset(fp[i][2], fp_radius_amin, r)]
        phi == [i \in DOMAIN fp |->
                   bore[2] + ((Offset(fp[i][1], fp_radius_amin, r)
                                 * TwiceSin(bore[1])) \div 2)]
    IN  IF \E i \in DOMAIN fp : ~ThetaInRange(theta[i]) THEN <<>>
        ELSE [i \in DOMAIN fp |-> ang2pix(theta[i], phi[i])]

\* focalplane_nhits[pixels] += v as numpy does it: a pixel listed twice
\* receives v once
AddHitsBuffered(nhits, pixels, i, v) ==
    IF i > Len(pixels) THEN nhits
    ELSE [p \in DOMAIN nhits |->
             IF \E j \in DOMAIN pixels : pixels[j] = p THEN nhits[p] + v
             ELSE nhits[p]]

\* lines 604-612: for (i=0;i<npix_loc;i++) focalplane_nhits[pixels[i]] += v
RECURSIVE AddHits(_, _, _, _)
AddHits(nhits, pixels, i, v) ==
    IF i > Len(pixels) THEN nhits
    ELSE AddHits([nhits EXCEPT ![pixels[i]] = @ + v], pixels, i + 1, v)

\* scanning_strategy_f.convolve_focalplane_f: the accumulation of the
\* reference loop
convolve_focalplane_f(nhits, pixels, v) == AddHits(nhits, pixels, 1, v)

\* lines 603-623: if language in ['python', 'C'] / elif 'fortran', no else
FpKernel(language, nhits, pixels, v) ==
    IF language \in {"python", "C"} THEN AddHits(nhits, pixels, 1, v)
    ELSE IF language = "fortran" THEN convolve_focalplane_f(nhits, pixels, v)
    ELSE nhits

\* lines 584-623: the loop over the pixels of bore_nhits that were hit, from
\* pixel n on; the exception of a pass ends the call
RECURSIVE FpLoop(_, _, _, _, _, _, _)
FpLoop(bore_nhits, nhits, n, bolo_per_pix, fp_radius_amin, boost, language) ==
    IF n >= npix THEN [error |-> "none", nhits |-> nhits]
    ELSE IF bore_nhits[n] = 0
         THEN FpLoop(bore_nhits, nhits, n + 1, bolo_per_pix, fp_radius_amin,
                     boost, language)
    ELSE LET pixels == pixels_of(n, fp_radius_amin)
         IN  IF pixels = <<>>
             THEN [error |-> "ValueError", nhits |-> nhits]
             ELSE FpLoop(bore_nhits,
                         FpKernel(language, nhits, pixels,
                                  bore_nhits[n] * bolo_per_pix * boost),
                         n + 1, bolo_per_pix, fp_radius_amin, boost, language)

\* convolve_focalplane as a function of its arguments: the exception raised
\* and the map returned (None when it raised)
ConvolveFocalplane(bore_nhits, nbolos, fp_radius_amin, boost, language) ==
    LET nfp == Len(fp_map(fp_rad_bins(fp_radius_amin)))
    IN  IF nfp = 0 THEN [error |-> "ZeroDivisionError", nhits |-> None]
        ELSE LET r == FpLoop(bore_nhits, Zeros(npix), 0, nbolos \div nfp,
                             fp_radius_amin, boost, language)
             IN  IF r.error # "none" THEN [r EXCEPT !.nhits = None] ELSE r

convolve_focalplane(bore_nhits, nbolos, fp_radius_amin, boost, language) ==
    /\ ~fp_call.called
    /\ LET r == ConvolveFocalplane(bore_nhits, nbolos, fp_radius_amin, boost,
                                   language)
       IN  /\ fp_call' = [called |-> TRUE, bore_nhits |-> bore_nhits,
                          nbolos |-> nbolos,
                          fp_radius_amin |-> fp_radius_amin,
                          boost |-> boost, language |-> language,
                          error |-> r.error]
           /\ focalplane_nhits' = r.nhits

\* the hit maps of the reference detector: nothing, one pixel of an inner
\* ring, two neighbours of an inner ring, one pixel of the first ring, one
\* pixel of an inner ring and one of the last
HitMap(S, h) == [n \in Range(npix) |-> IF n \in S THEN h ELSE 0]

BoreMaps ==
    {HitMap({}, 0), HitMap({NCols + 1}, 3), HitMap({NCols + 1, NCols + 2}, 2),
     HitMap({1}, 1), HitMap({NCols, npix - 1}, 1)}

\* as many detectors as a multiple of every footprint drawn
NBolos == {9, 18}

Boosts == {1, 2}

\* radii of a footprint of no pixel, of one pixel, of nine pixels half a
\* pixel apart and of nine pixels more than half a pixel apart
FpRadii == {4, 8, 16, 20}

FpLanguages == {"python", "C", "fortran", "julia"}

outsideFp == <<xtalkVars, workerVars, beamVars, detVars, scanVars, convVars>>

CallConvolveFocalplane ==
    \E bore_nhits \in BoreMaps, nbolos \in NBolos, fp_radius_amin \in FpRadii,
       boost \in Boosts, language \in FpLanguages :
        /\ convolve_focalplane(bore_nhits, nbolos, fp_radius_amin, boost,
                               language)
        /\ UNCHANGED outsideFp

FpNext == CallConvolveFocalplane

FpInit ==
    /\ XtalkIdle
    /\ BeamIdle
    /\ DetIdle
    /\ ScanIdle
    /\ ConvIdle
    /\ FpIdle

SpecFp == FpInit /\ [][FpNext]_vars

\* the sum of a map
TotalHits(nhits) == SetSum(nhits, DOMAIN nhits)

\* the call returned a map computed by a backend it has a kernel for
FpReturned ==
    /\ fp_call.called
    /\ fp_call.error = "none"
    /\ fp_call.language \in {"python", "C"}

\* two offsets of one source pixel fall on the same target pixel
FpCollision ==
    \E n \in Range(npix) :
        /\ fp_call.bore_nhits[n] # 0
        /\ LET pixels == pixels_of(n, fp_call.fp_radius_amin)
           IN  \E i, j \in DOMAIN pixels : i # j /\ pixels[i] = pixels[j]

FpConserved ==
    TotalHits(focalplane_nhits) =
        TotalHits(fp_call.bore_nhits) * fp_call.nbolos * fp_call.boost

\* C25: the total accumulated hit mass sum(output) equals
\* sum(input hits) * nbolos * boost only when every offset of every source
\* pixel maps to a distinct target pixel: when two offsets of one source
\* pixel collide on the same target pixel, conservation does not hold.
C25_ConservedOnlyWithoutCollision ==
    FpReturned => (FpConserved <=> ~FpCollision)

\* C25, as the code has it: the loop adds the hits of the source pixel once
\* per offset, into the same target pixel again when two offsets collide, so
\* sum(output) equals sum(input hits) * nbolos * boost whether or not
\* offsets collide.
C25_ConservedAlways ==
    FpReturned => FpConserved

\* a call whose offsets collide, that piled hits on a target pixel and
\* conserved their sum
C25_Witness ==
    /\ FpReturned
    /\ FpCollision
    /\ FpConserved
    /\ TotalHits(focalplane_nhits) > 0
    /\ \E p \in DOMAIN focalplane_nhits :
           focalplane_nhits[p] > MaxOf({fp_call.bore_nhits[n] : n \in Range(npix)})
                                   * (fp_call.nbolos \div 9) * fp_call.boost

====
